---------------------------- MODULE Spec2Model ----------------------------
(***************************************************************************)
(* The Select system of the infinite-canvas ECS package: the per-frame     *)
(* gesture state machine (Select.execute), the OBB / anchor math           *)
(* (computeOBBFromSavedMask), the transform solver (fitSelected) and the   *)
(* brush selection, as a state machine whose step is one call of           *)
(* execute().                                                              *)
(*                                                                         *)
(* Numbers.  Canvas lengths are fixed-point integers counting steps of     *)
(* 0.01 canvas units (Unit steps make one canvas unit), so that the        *)
(* program's epsilon 0.01 is the integer 1 and "x < 1e-10" is "x <= 0".    *)
(* Viewport coordinates are whole pixels.  A result the program computes   *)
(* in floating point is rounded to the nearest step.                       *)
(***************************************************************************)
EXTENDS Integers, Sequences, FiniteSets, TLC

(***************************************************************************)
(* Arithmetic helpers                                                      *)
(***************************************************************************)
Abs(a) == IF a < 0 THEN -a ELSE a

Min(a, b) == IF a < b THEN a ELSE b

Max(a, b) == IF a > b THEN a ELSE b

Sign(a) == IF a > 0 THEN 1 ELSE IF a < 0 THEN -1 ELSE 0

\* a / b rounded to the nearest integer (b > 0), as Math.round does.
RoundDiv(a, b) == (2 * a + b) \div (2 * b)

RECURSIVE Gcd(_, _)
Gcd(a, b) == IF b = 0 THEN a ELSE Gcd(b, a % b)

RECURSIVE SqrtSearch(_, _, _)
SqrtSearch(n, lo, hi) ==
    IF lo >= hi THEN lo
    ELSE LET mid == (lo + hi + 1) \div 2
         IN IF mid * mid <= n THEN SqrtSearch(n, mid, hi)
                              ELSE SqrtSearch(n, lo, mid - 1)

\* floor(sqrt(n)), n >= 0
ISqrt(n) == SqrtSearch(n, 0, 46340)

IsSquare(n) == ISqrt(n) * ISqrt(n) = n

\* num * sqrt(d2 / h2) rounded to the nearest step; exact whenever the
\* reduced fraction d2 / h2 is the square of a rational.
MulSqrtRatio(num, d2, h2) ==
    LET g == Gcd(d2, h2)
        a == IF g = 0 THEN 0 ELSE d2 \div g
        b == IF g = 0 THEN 1 ELSE h2 \div g
    IN IF IsSquare(a) /\ IsSquare(b)
       THEN RoundDiv(num * ISqrt(a), ISqrt(b))
       ELSE RoundDiv(num * ISqrt(100 * d2), ISqrt(100 * h2))

(***************************************************************************)
(* Program constants                                                       *)
(***************************************************************************)
DRAG_THRESHOLD == 3

BRUSH_THRESHOLD == 10

Unit == 100

Epsilon == 1

IDLE == "IDLE"
READY_TO_BRUSH == "READY_TO_BRUSH"
BRUSH == "BRUSH"
READY_TO_SELECT == "READY_TO_SELECT"
SELECT == "SELECT"
READY_TO_MOVE == "READY_TO_MOVE"
MOVE == "MOVE"
READY_TO_RESIZE == "READY_TO_RESIZE"
RESIZE == "RESIZE"
READY_TO_ROTATE == "READY_TO_ROTATE"
ROTATE == "ROTATE"

SelectionMode ==
    { IDLE, READY_TO_BRUSH, BRUSH, READY_TO_SELECT, SELECT, READY_TO_MOVE, MOVE,
      READY_TO_RESIZE, RESIZE, READY_TO_ROTATE, ROTATE }

CornerAnchors == { "TOP_LEFT", "TOP_RIGHT", "BOTTOM_LEFT", "BOTTOM_RIGHT" }

EdgeAnchors == { "MIDDLE_LEFT", "MIDDLE_RIGHT", "TOP_CENTER", "BOTTOM_CENTER" }

AnchorName == CornerAnchors \cup EdgeAnchors \cup { "INSIDE" }

Pen == { "SELECT", "HAND", "VECTOR_NETWORK", "ERASER" }


(***************************************************************************)
(* The scene.  Four nodes: A and B are direct children of the camera, N is *)
(* a child of A (a nested node), U is a UI-flagged direct child lying over *)
(* part of B.  zOrder lists them topmost first, the order the spatial      *)
(* index returns.                                                          *)
(***************************************************************************)
NodeIds == { "A", "B", "N", "U" }

NoEntity == "none"

CameraId == "camera"

parentOf == [ A |-> CameraId, B |-> CameraId, N |-> "A", U |-> CameraId ]

isUI == [ A |-> FALSE, B |-> FALSE, N |-> FALSE, U |-> TRUE ]

zOrder == << "U", "N", "B", "A" >>

Node(x, y, w, h) ==
    [ x |-> x, y |-> y, width |-> w, height |-> h,
      rotation |-> 0, scaleX |-> 1, scaleY |-> 1 ]

InitNodes ==
    [ A |-> Node(200, 200, 200, 200),
      B |-> Node(610, 200, 200, 200),
      N |-> Node(25, 25, 50, 50),
      U |-> Node(700, 300, 80, 100) ]

\* The pointer positions the input stream is drawn from (viewport pixels).
Points ==
    { <<0, 0>>, <<13, 13>>, <<16, 16>>, <<18, 18>>, <<30, 14>> }

CameraZoom == 4

\* api.viewport2Canvas with the camera at the origin, zoomed in CameraZoom
\* times: one viewport pixel is Unit / CameraZoom fixed-point steps.
viewport2Canvas(v) == (v * Unit) \div CameraZoom

distance2(x1, y1, x2, y2) == (x1 - x2) * (x1 - x2) + (y1 - y2) * (y1 - y2)

\* distanceBetweenPoints(...) >= d and > d, on whole pixels
distanceAtLeast(x1, y1, x2, y2, d) == distance2(x1, y1, x2, y2) >= d * d

distanceMoreThan(x1, y1, x2, y2, d) == distance2(x1, y1, x2, y2) > d * d

RECURSIVE AbsX(_, _)
AbsX(nodes, id) ==
    IF parentOf[id] = CameraId THEN nodes[id].x
    ELSE nodes[id].x + AbsX(nodes, parentOf[id])

RECURSIVE AbsY(_, _)
AbsY(nodes, id) ==
    IF parentOf[id] = CameraId THEN nodes[id].y
    ELSE nodes[id].y + AbsY(nodes, parentOf[id])

\* api.getAbsoluteTransformAndSize(node)
getAbsoluteTransformAndSize(nodes, id) ==
    [ nodes[id] EXCEPT !.x = AbsX(nodes, id), !.y = AbsY(nodes, id) ]

\* api.elementsFromBBox: the entities whose bounds meet the box, topmost first
elementsFromBBox(nodes, minX, minY, maxX, maxY) ==
    LET Meets(id) ==
            LET ax == AbsX(nodes, id)
                ay == AbsY(nodes, id)
            IN /\ ax <= maxX /\ ax + nodes[id].width >= minX
               /\ ay <= maxY /\ ay + nodes[id].height >= minY
    IN SelectSeq(zOrder, Meets)

\* Array.prototype.find on a sequence of entities
Find(seq, Keep(_)) ==
    LET hits == SelectSeq(seq, Keep)
    IN IF Len(hits) = 0 THEN NoEntity ELSE Head(hits)

SeqToSet(seq) == { seq[i] : i \in 1..Len(seq) }

getTopmostEntity(nodes, x, y) ==
    LET wx == viewport2Canvas(x)
        wy == viewport2Canvas(y)
        NotUI(e) == ~isUI[e]
    IN Find(elementsFromBBox(nodes, wx, wy, wx, wy), NotUI)

\* getOBB(camera): the box of the selected nodes (all rotations are 0 in
\* the scene, so the box is axis-aligned).
MinOf(S) == CHOOSE m \in S : \A n \in S : m <= n

MaxOf(S) == CHOOSE m \in S : \A n \in S : m >= n

BoxOf(x0, y0, x1, y1) ==
    [ x |-> x0, y |-> y0, width |-> x1 - x0, height |-> y1 - y0,
      rotation |-> 0, scaleX |-> 1, scaleY |-> 1 ]

getOBB(nodes, selecteds) ==
    IF selecteds = {} THEN BoxOf(0, 0, 0, 0)
    ELSE BoxOf(MinOf({ AbsX(nodes, id) : id \in selecteds }),
               MinOf({ AbsY(nodes, id) : id \in selecteds }),
               MaxOf({ AbsX(nodes, id) + nodes[id].width : id \in selecteds }),
               MaxOf({ AbsY(nodes, id) + nodes[id].height : id \in selecteds }))

AnchorRadius == 1

Hit(a, c) == [ anchor |-> a, cursor |-> c ]

NoHit == Hit("NONE", "default")

\* The anchor of the box (x0, y0)-(x1, y1) under the canvas point (cx, cy):
\* resize handles of radius r sit on the corners and edges, the rotate
\* zones just outside the corners, INSIDE is the interior.
HitBox(x0, y0, x1, y1, cx, cy, r) ==
    CASE Abs(cx - x0) <= r /\ Abs(cy - y0) <= r -> Hit("TOP_LEFT", "nwse-resize")
      [] Abs(cx - x1) <= r /\ Abs(cy - y0) <= r -> Hit("TOP_RIGHT", "nesw-resize")
      [] Abs(cx - x0) <= r /\ Abs(cy - y1) <= r -> Hit("BOTTOM_LEFT", "nesw-resize")
      [] Abs(cx - x1) <= r /\ Abs(cy - y1) <= r -> Hit("BOTTOM_RIGHT", "nwse-resize")
      [] Abs(cy - y0) <= r /\ x0 < cx /\ cx < x1 -> Hit("TOP_CENTER", "ns-resize")
      [] Abs(cy - y1) <= r /\ x0 < cx /\ cx < x1 -> Hit("BOTTOM_CENTER", "ns-resize")
      [] Abs(cx - x0) <= r /\ y0 < cy /\ cy < y1 -> Hit("MIDDLE_LEFT", "ew-resize")
      [] Abs(cx - x1) <= r /\ y0 < cy /\ cy < y1 -> Hit("MIDDLE_RIGHT", "ew-resize")
      [] x0 < cx /\ cx < x1 /\ y0 < cy /\ cy < y1 -> Hit("INSIDE", "default")
      [] Abs(cx - x0) <= 3 * r /\ Abs(cy - y0) <= 3 * r -> Hit("TOP_LEFT", "nwse-rotate")
      [] Abs(cx - x1) <= 3 * r /\ Abs(cy - y0) <= 3 * r -> Hit("TOP_RIGHT", "nesw-rotate")
      [] Abs(cx - x0) <= 3 * r /\ Abs(cy - y1) <= 3 * r -> Hit("BOTTOM_LEFT", "swne-rotate")
      [] Abs(cx - x1) <= 3 * r /\ Abs(cy - y1) <= 3 * r -> Hit("BOTTOM_RIGHT", "senw-rotate")
      [] OTHER -> NoHit

HitOBB(obb, cx, cy, r) ==
    HitBox(obb.x, obb.y, obb.x + obb.width, obb.y + obb.height, cx, cy, r)

\* hitTest(api, {x, y}): the anchor of the visible transformer under the point
hitTest(nodes, selecteds, visible, px, py) ==
    IF selecteds = {} \/ ~visible THEN NoHit
    ELSE HitOBB(getOBB(nodes, selecteds), viewport2Canvas(px), viewport2Canvas(py),
                viewport2Canvas(AnchorRadius))

IsRotateCursor(c) ==
    c \in { "nwse-rotate", "nesw-rotate", "swne-rotate", "senw-rotate" }

IsResizeCursor(c) ==
    c \in { "nwse-resize", "nesw-resize", "ns-resize", "ew-resize" }

(***************************************************************************)
(* Affine transforms (gl-matrix mat3).  A matrix is kept exactly, as       *)
(* integer entries over one positive denominator:                          *)
(*     x' = (a*x + b*y + tx) / den      y' = (c*x + d*y + ty) / den        *)
(* Rotations are whole quarter turns (0..3), so sines and cosines are      *)
(* 0, 1 or -1.                                                             *)
(***************************************************************************)
Cos4(q) == CASE q % 4 = 0 -> 1 [] q % 4 = 1 -> 0 [] q % 4 = 2 -> -1 [] OTHER -> 0

Sin4(q) == CASE q % 4 = 0 -> 0 [] q % 4 = 1 -> 1 [] q % 4 = 2 -> 0 [] OTHER -> -1

Mat(a, b, c, d, tx, ty, den) ==
    [ a |-> a, b |-> b, c |-> c, d |-> d, tx |-> tx, ty |-> ty, den |-> den ]

\* mat3.create()
MatIdentity == Mat(1, 0, 0, 1, 0, 0, 1)

\* the same transform in lowest terms with a positive denominator
MatNormalize(m) ==
    LET g0 == Gcd(Abs(m.a), Gcd(Abs(m.b), Gcd(Abs(m.c), Gcd(Abs(m.d),
                 Gcd(Abs(m.tx), Gcd(Abs(m.ty), Abs(m.den)))))))
        g == IF g0 = 0 THEN 1 ELSE g0
        s == IF m.den < 0 THEN -1 ELSE 1
    IN Mat((s * m.a) \div g, (s * m.b) \div g, (s * m.c) \div g, (s * m.d) \div g,
           (s * m.tx) \div g, (s * m.ty) \div g, (s * m.den) \div g)

\* mat3.multiply(out, m1, m2): apply m2, then m1
MatMultiply(m1, m2) ==
    MatNormalize(
        Mat(m1.a * m2.a + m1.b * m2.c,
            m1.a * m2.b + m1.b * m2.d,
            m1.c * m2.a + m1.d * m2.c,
            m1.c * m2.b + m1.d * m2.d,
            m1.a * m2.tx + m1.b * m2.ty + m1.tx * m2.den,
            m1.c * m2.tx + m1.d * m2.ty + m1.ty * m2.den,
            m1.den * m2.den))

MatDet(m) == m.a * m.d - m.b * m.c

\* mat3.invert (the determinant is not 0 wherever the program calls it
\* past its guards)
MatInvert(m) ==
    MatNormalize(
        Mat(m.den * m.d, -(m.den * m.b), -(m.den * m.c), m.den * m.a,
            m.b * m.ty - m.d * m.tx,
            m.c * m.tx - m.a * m.ty,
            MatDet(m)))

\* translate(x, y) . rotate(q) . scale(sx / sden, sy / sden)
MatTRS(x, y, q, sx, sy, sden) ==
    MatNormalize(
        Mat(Cos4(q) * sx, -(Sin4(q) * sy), Sin4(q) * sx, Cos4(q) * sy,
            x * sden, y * sden, sden))

\* vec2.transformMat3, rounded to the fixed-point grid
transformMat3(x, y, m) ==
    << RoundDiv(m.a * x + m.b * y + m.tx, m.den),
       RoundDiv(m.c * x + m.d * y + m.ty, m.den) >>

\* decompose(mat): translation, rotation and scale of a transform whose
\* axes are images of the coordinate axes under a quarter-turn rotation
\* and a positive scale.  The scale is kept as the fraction num / den.
decompose(m) ==
    [ translation |-> << RoundDiv(m.tx, m.den), RoundDiv(m.ty, m.den) >>,
      rotation |-> IF m.a > 0 THEN 0
                   ELSE IF m.c > 0 THEN 1
                   ELSE IF m.a < 0 THEN 2 ELSE 3,
      scaleNum |-> << ISqrt(m.a * m.a + m.c * m.c), ISqrt(m.b * m.b + m.d * m.d) >>,
      scaleDen |-> m.den ]

\* api.getTransform(node): the local transform a node record describes
getTransform(n) == MatTRS(n.x, n.y, n.rotation, n.scaleX, n.scaleY, 1)

\* api.getParentTransform(entity): the global transform of the parent
getParentTransform(nodes, id) ==
    IF parentOf[id] = CameraId THEN MatIdentity
    ELSE MatTRS(AbsX(nodes, parentOf[id]), AbsY(nodes, parentOf[id]), 0, 1, 1, 1)


(***************************************************************************)
(* OBB and anchor math                                                     *)
(***************************************************************************)
\* The saved cos and sin of the OBB's diagonal are width / hypotenuse and
\* height / hypotenuse: irrational in general, so each is kept as
\* num / sqrt(h2).
Ratio(num, h2) == [ num |-> num, h2 |-> h2 ]

SkipBox == [ skip |-> TRUE, width |-> 0, height |-> 0, minX |-> 0, minY |-> 0 ]

\* LocalBox without the size guard
LocalBoxNoSkip(width, height, minX, minY) ==
    [ skip |-> FALSE, width |-> width, height |-> height,
      minX |-> minX, minY |-> minY ]

\* "if (width < 0.01 && height < 0.01) return"
LocalBox(width, height, minX, minY) ==
    IF width < Epsilon /\ height < Epsilon THEN SkipBox
    ELSE [ skip |-> FALSE, width |-> width, height |-> height,
           minX |-> minX, minY |-> minY ]

\* MiddleBox without the aspect lock: the height stays the saved height
MiddleBoxFree(x, fixedX, savedH, height) ==
    LocalBox(Abs(x - fixedX), savedH, Min(x, fixedX), 0)

\* MIDDLE_LEFT / MIDDLE_RIGHT: the height follows the width, centred on
\* the saved centre
MiddleBox(x, fixedX, savedH, height) ==
    LocalBox(Abs(x - fixedX), height, Min(x, fixedX), RoundDiv(savedH - height, 2))

\* TOP_CENTER / BOTTOM_CENTER: the width follows the height
CenterBox(y, fixedY, savedW, width) ==
    LocalBox(width, Abs(y - fixedY), RoundDiv(savedW - width, 2), Min(y, fixedY))

\* CornerBox with the box spanned from the fixed corner to the cursor
\* instead of to the aspect-locked corner
CornerBoxToCursor(fixedLocalX, fixedLocalY, dx, dy, width, height) ==
    LocalBox(width, height,
             Min(fixedLocalX, fixedLocalX + dx), Min(fixedLocalY, fixedLocalY + dy))

\* A corner anchor: the diagonally opposite corner (fixedLocalX,
\* fixedLocalY) is fixed, the new corner lies width, height away on the
\* cursor's side
CornerBox(fixedLocalX, fixedLocalY, dx, dy, width, height) ==
    LocalBox(width, height,
             Min(fixedLocalX, fixedLocalX + width * (IF dx >= 0 THEN 1 ELSE -1)),
             Min(fixedLocalY, fixedLocalY + height * (IF dy >= 0 THEN 1 ELSE -1)))

CornerFrom(fixedLocalX, fixedLocalY, dx, dy, cos, sin) ==
    CornerBox(fixedLocalX, fixedLocalY, dx, dy,
              MulSqrtRatio(cos.num, dx * dx + dy * dy, cos.h2),
              MulSqrtRatio(sin.num, dx * dx + dy * dy, sin.h2))

CornerAt(fixedLocalX, fixedLocalY, x, y, cos, sin) ==
    CornerFrom(fixedLocalX, fixedLocalY, x - fixedLocalX, y - fixedLocalY, cos, sin)

\* The new OBB of a resize frame, in the frame of the saved mask; skip
\* where the program returns early.
ResizedLocalBox(anchorName, x, y, cos, sin, savedW, savedH) ==
    IF savedW <= 0 \/ savedH <= 0 THEN SkipBox
    ELSE IF anchorName \in { "MIDDLE_LEFT", "MIDDLE_RIGHT" }
    THEN MiddleBox(x, IF anchorName = "MIDDLE_RIGHT" THEN 0 ELSE savedW, savedH,
                   RoundDiv(Abs(x - (IF anchorName = "MIDDLE_RIGHT" THEN 0 ELSE savedW))
                            * savedH, savedW))
    ELSE IF anchorName \in { "TOP_CENTER", "BOTTOM_CENTER" }
    THEN CenterBox(y, IF anchorName = "BOTTOM_CENTER" THEN 0 ELSE savedH, savedW,
                   RoundDiv(Abs(y - (IF anchorName = "BOTTOM_CENTER" THEN 0 ELSE savedH))
                            * savedW, savedH))
    ELSE CornerAt(IF anchorName \in { "BOTTOM_RIGHT", "TOP_RIGHT" } THEN 0 ELSE savedW,
                  IF anchorName \in { "BOTTOM_RIGHT", "BOTTOM_LEFT" } THEN 0 ELSE savedH,
                  x, y, cos, sin)

OBBAt(origin, box, savedObb) ==
    [ x |-> origin[1], y |-> origin[2],
      width |-> box.width, height |-> box.height,
      rotation |-> savedObb.rotation,
      scaleX |-> savedObb.scaleX, scaleY |-> savedObb.scaleY ]

\* The OBB computeOBBFromSavedMask hands to fitSelected and to
\* syncMaskTransform: the local box carried to the canvas by the saved mask
\* matrix, with the saved rotation and scale signs.
ResizedOBB(box, savedMaskMatrix, savedObb) ==
    OBBAt(transformMat3(box.minX, box.minY, savedMaskMatrix), box, savedObb)

(***************************************************************************)
(* Transform solver                                                        *)
(***************************************************************************)
\* translate(x, y) . rotate(rotation) . scale(width / baseSize,
\* height / baseSize), with its linear part in units of 1 / baseSize: the
\* factor is common to the old and the new transform and cancels in delta.
OBBTransform(attrs) ==
    MatTRS(attrs.x, attrs.y, attrs.rotation, attrs.width, attrs.height, 1)

\* DeltaTransform without the inversion of the old transform
DeltaTransformNotInverted(oldAttrs, newAttrs) ==
    MatMultiply(OBBTransform(newAttrs), OBBTransform(oldAttrs))

\* [delta transform] = [new transform] * [old transform inverted]
DeltaTransform(oldAttrs, newAttrs) ==
    MatMultiply(OBBTransform(newAttrs), MatInvert(OBBTransform(oldAttrs)))

\* [new local] = [parent inverted] * [delta] * [parent] * [old local]
NewLocalTransform(parentTransform, delta, localTransform) ==
    MatMultiply(MatInvert(parentTransform),
                MatMultiply(delta, MatMultiply(parentTransform, localTransform)))

\* Math.sign(v) || 1
SignOr1(v) == IF v < 0 THEN -1 ELSE 1

\* Math.max(size * scale, epsilon)
FloorSize(size, scaleNum, scaleDen) ==
    Max(RoundDiv(size * scaleNum, scaleDen), Epsilon)

FitWrite(oldNode, dec, oldAttrs, newAttrs) ==
    [ x |-> dec.translation[1],
      y |-> dec.translation[2],
      width |-> FloorSize(oldNode.width, dec.scaleNum[1], dec.scaleDen),
      height |-> FloorSize(oldNode.height, dec.scaleNum[2], dec.scaleDen),
      rotation |-> dec.rotation,
      scaleX |-> oldAttrs.scaleX * SignOr1(newAttrs.width),
      scaleY |-> oldAttrs.scaleY * SignOr1(newAttrs.height) ]

\* The obb fitSelected writes to one node
FitNode(oldNode, parentTransform, delta, oldAttrs, newAttrs) ==
    FitWrite(oldNode,
             decompose(NewLocalTransform(parentTransform, delta, getTransform(oldNode))),
             oldAttrs, newAttrs)

(***************************************************************************)
(* Snapping                                                                *)
(***************************************************************************)
GridSize == 50

SnapTolerance == 10

\* snapToGrid(v, size) = Math.round(v / size) * size
snapToGrid(v, size) == RoundDiv(v, size) * size

getGridPoint(x, y, size) == << snapToGrid(x, size), snapToGrid(y, size) >>

\* The corrections that bring an edge of the dragged box onto an edge of a
\* sibling, along one axis.
SnapCandidates(dragEdges, siblingEdges) ==
    { s - e : s \in siblingEdges, e \in dragEdges } \cap (-SnapTolerance..SnapTolerance)

MinimalCorrection(cands) ==
    IF cands = {} THEN 0
    ELSE CHOOSE c \in cands :
            \A o \in cands : Abs(c) < Abs(o) \/ (Abs(c) = Abs(o) /\ c >= o)


SnapLinesOf(axis, dragEdges, siblingEdges, c) ==
    { [ type |-> "points", axis |-> axis, at |-> e + c ] :
          e \in { d \in dragEdges : d + c \in siblingEdges } }

SnapAt(axis, dragEdges, siblingEdges, c) ==
    [ offset |-> c, lines |-> SnapLinesOf(axis, dragEdges, siblingEdges, c) ]

SnapWith(axis, dragEdges, siblingEdges, cands) ==
    IF cands = {} THEN [ offset |-> 0, lines |-> {} ]
    ELSE SnapAt(axis, dragEdges, siblingEdges, MinimalCorrection(cands))

\* One axis: the correction, and one "points" snap line per aligned edge
SnapAxis(axis, dragEdges, siblingEdges) ==
    SnapWith(axis, dragEdges, siblingEdges, SnapCandidates(dragEdges, siblingEdges))

\* The nodes that are not selected and share the selection's parent
Siblings(selecteds) ==
    { id \in NodeIds : id \notin selecteds /\ parentOf[id] = CameraId }

EdgesX(nodes, ids) ==
    UNION { { AbsX(nodes, id), AbsX(nodes, id) + nodes[id].width } : id \in ids }

EdgesY(nodes, ids) ==
    UNION { { AbsY(nodes, id), AbsY(nodes, id) + nodes[id].height } : id \in ids }

SnapJoin(sx, sy) ==
    [ snapOffset |-> << sx.offset, sy.offset >>, snapLines |-> sx.lines \cup sy.lines ]

SnapBox(nodes, selecteds, obb, dragOffset) ==
    SnapJoin(SnapAxis("x", { obb.x + dragOffset[1], obb.x + obb.width + dragOffset[1] },
                      EdgesX(nodes, Siblings(selecteds))),
             SnapAxis("y", { obb.y + dragOffset[2], obb.y + obb.height + dragOffset[2] },
                      EdgesY(nodes, Siblings(selecteds))))

\* snapDraggedElements(api, dragOffset): the minimal corrective offset that
\* aligns the dragged selection box with the boxes of its non-selected
\* siblings, and the snap lines.
snapDraggedElements(nodes, selecteds, dragOffset) ==
    IF selecteds = {} THEN [ snapOffset |-> << 0, 0 >>, snapLines |-> {} ]
    ELSE SnapBox(nodes, selecteds, getOBB(nodes, selecteds), dragOffset)

\* calculateOffset(commonBounds, dragOffset, snapOffset, gridSize): the
\* corrective offset added to the grid-quantized drag offset.
calculateOffset(bounds, dragOffset, snapOffset, size) ==
    << dragOffset[1] + snapOffset[1], dragOffset[2] + snapOffset[2] >>

(***************************************************************************)
(* State                                                                   *)
(***************************************************************************)
VARIABLES
    nodes,                  \* node id -> local translation, size, rotation, scale
    layersSelected,         \* the selected nodes (Transformable.selecteds)
    layersHighlighted,      \* the nodes carrying Highlighted
    selections,             \* Select.selections: << >> or << the camera's SelectOBB >>
    transformable,          \* Transformable of the camera: status, transformer visibility
    penbarSelected,         \* AppState.penbarSelected
    snapToPixelGridEnabled, \* AppState.snapToPixelGridEnabled
    pointerViewport,        \* Input.pointerViewport of the last frame
    pressed,                \* a pointer is down (an InputPoint exists)
    cameraControl,          \* ComputedCameraControl: the last pointer-down point
    press,                  \* history of the current press (not program state)
    frames,                 \* the number of frames run
    svgLayer,               \* the overlay containers attached to the SVG layer
    calc,                   \* one resize or fit computation: its inputs and results
    tasks                   \* the callbacks queued for the next tick and the timers, and the API calls made

vars ==
    << nodes, layersSelected, layersHighlighted, selections, transformable,
       penbarSelected, snapToPixelGridEnabled, pointerViewport, pressed,
       cameraControl, press, frames, svgLayer, calc, tasks >>

ActiveModes == { BRUSH, MOVE, RESIZE, ROTATE }

\* The SelectOBB execute() creates for a camera it has not seen
NewSelection(ns) ==
    [ mode |-> IDLE,
      resizingAnchorName |-> "INSIDE",
      nodes |-> [ id \in NodeIds |-> getAbsoluteTransformAndSize(ns, id) ],
      obb |-> BoxOf(0, 0, 0, 0),
      sin |-> Ratio(0, 1),
      cos |-> Ratio(0, 1),
      pointerMoveViewportX |-> 0,
      pointerMoveViewportY |-> 0,
      pointerDownViewportX |-> 0,
      pointerDownViewportY |-> 0,
      pointerDownShiftKey |-> FALSE,
      pointerDownSelectionHandled |-> FALSE,
      savedMaskMatrix |-> << >>,
      savedMaskMatrixInv |-> << >>,
      brushContainer |-> [ attached |-> TRUE, visibility |-> "", brush |-> << >> ],
      snapContainer |-> [ attached |-> TRUE, lines |-> {} ],
      prevHoverEntity |-> NoEntity ]

(***************************************************************************)
(* The node API, on a world record w: the part of the state one execute()  *)
(* reads and writes (nodes, layersSelected, layersHighlighted, selection,  *)
(* transformable), the record() calls made so far (recordLog), the         *)
(* saveSelectedOBB() calls made so far (saveLog) and the step it is in.    *)
(***************************************************************************)
selectNodes(w, ids, additive) ==
    [ w EXCEPT !.layersSelected = IF additive THEN @ \cup ids ELSE ids ]

deselectNodes(w, ids) == [ w EXCEPT !.layersSelected = @ \ ids ]

highlightNodes(w, ids) == [ w EXCEPT !.layersHighlighted = ids ]

record(w) == [ w EXCEPT !.recordLog = Append(@, w.step) ]

\* api.updateNodeOBB(node, obb, ...): the node takes the geometry of obb
updateNodeOBB(w, id, obb) == [ w EXCEPT !.nodes[id] = obb ]

\* Transformable.selecteds in scene order
NodeOrder == << "A", "N", "B", "U" >>

SelectedSeq(selecteds) ==
    LET In(id) == id \in selecteds
    IN SelectSeq(NodeOrder, In)

\* The mask of the transformer: the frame of the OBB
MaskOf(obb) == MatTRS(obb.x, obb.y, obb.rotation, 1, 1, 1)

\* sin and cos of the diagonal of the saved OBB; h2 is the hypotenuse squared
SavedSin(obb, h2) == IF h2 <= 0 THEN Ratio(0, 1) ELSE Ratio(Abs(obb.height), h2)

SavedCos(obb, h2) == IF h2 <= 0 THEN Ratio(1, 1) ELSE Ratio(Abs(obb.width), h2)

Hypotenuse2(obb) == obb.width * obb.width + obb.height * obb.height

SaveOBB(w, obb, h2) ==
    [ w EXCEPT
        !.saveLog = Append(@, w.step),
        !.selection.obb = obb,
        !.selection.sin = SavedSin(obb, h2),
        !.selection.cos = SavedCos(obb, h2),
        !.selection.nodes =
            [ id \in NodeIds |-> getAbsoluteTransformAndSize(w.nodes, id) ],
        !.selection.savedMaskMatrix = << MaskOf(obb) >>,
        !.selection.savedMaskMatrixInv = << MatInvert(MaskOf(obb)) >> ]

SaveBox(w, obb) == SaveOBB(w, obb, Hypotenuse2(obb))

saveSelectedOBB(w) == SaveBox(w, getOBB(w.nodes, w.layersSelected))

FitOne(w, id, obb) ==
    [ w EXCEPT !.nodes[id] = obb,
               !.selection.obb.scaleX = obb.scaleX,
               !.selection.obb.scaleY = obb.scaleY ]

RECURSIVE FitEach(_, _, _, _, _)
FitEach(w, ids, delta, oldAttrs, newAttrs) ==
    IF Len(ids) = 0 THEN w
    ELSE FitEach(FitOne(w, Head(ids),
                        FitNode(w.selection.nodes[Head(ids)],
                                getParentTransform(w.nodes, Head(ids)),
                                delta, oldAttrs, newAttrs)),
                 Tail(ids), delta, oldAttrs, newAttrs)

fitSelected(w, newAttrs) ==
    FitEach(w, SelectedSeq(w.layersSelected),
            DeltaTransform(w.selection.obb, newAttrs), w.selection.obb, newAttrs)

FitBox(w, box) ==
    IF box.skip THEN w
    ELSE fitSelected(w, ResizedOBB(box, w.selection.savedMaskMatrix[1], w.selection.obb))

computeOBBFromSavedMask(w, anchorName, x, y, cos, sin) ==
    IF Len(w.selection.savedMaskMatrix) = 0 THEN w
    ELSE FitBox(w, ResizedLocalBox(anchorName, x, y, cos, sin,
                                   w.selection.obb.width, w.selection.obb.height))

\* api.canvas2Transformer: the point in the frame of the live mask
canvas2Transformer(w, x, y) ==
    transformMat3(x, y, MatInvert(MaskOf(getOBB(w.nodes, w.layersSelected))))

\* ResizeAt with the snapshot retaken after the frame's resize
ResizeAtResaving(w, cursorInLocal) ==
    saveSelectedOBB(
        computeOBBFromSavedMask([ w EXCEPT !.transformable.status = "RESIZING" ],
                                w.selection.resizingAnchorName,
                                cursorInLocal[1], cursorInLocal[2],
                                w.selection.cos, w.selection.sin))

ResizeAt(w, cursorInLocal) ==
    computeOBBFromSavedMask([ w EXCEPT !.transformable.status = "RESIZING" ],
                            w.selection.resizingAnchorName,
                            cursorInLocal[1], cursorInLocal[2],
                            w.selection.cos, w.selection.sin)

handleSelectedResizing(w, canvasX, canvasY) ==
    ResizeAt(w, IF Len(w.selection.savedMaskMatrixInv) > 0
                THEN transformMat3(canvasX, canvasY, w.selection.savedMaskMatrixInv[1])
                ELSE canvas2Transformer(w, canvasX, canvasY))

GridSnap(dragOffset, snap, obb) ==
    [ offset |-> calculateOffset(<< obb.x, obb.y >>, dragOffset, snap.snapOffset, GridSize),
      snapLines |-> snap.snapLines ]

GridMove(w, dragOffset) ==
    GridSnap(dragOffset, snapDraggedElements(w.nodes, w.layersSelected, dragOffset),
             getOBB(w.nodes, w.layersSelected))

\* The offset one move frame applies, and the snap lines it shows
MoveOffset(w, sx, sy, ex, ey) ==
    IF snapToPixelGridEnabled
    THEN GridMove(w, << getGridPoint(ex, ey, GridSize)[1] - getGridPoint(sx, sy, GridSize)[1],
                        getGridPoint(ex, ey, GridSize)[2] - getGridPoint(sx, sy, GridSize)[2] >>)
    ELSE [ offset |-> << ex - sx, ey - sy >>, snapLines |-> {} ]

\* MoveEach with the offset accumulating over the loop: every node after
\* the first is moved by twice the offset of the one before it
RECURSIVE MoveEachAccumulating(_, _, _)
MoveEachAccumulating(w, ids, offset) ==
    IF Len(ids) = 0 THEN w
    ELSE MoveEachAccumulating(
             updateNodeOBB(w, Head(ids),
                           [ w.nodes[Head(ids)] EXCEPT !.x = @ + offset[1],
                                                       !.y = @ + offset[2] ]),
             Tail(ids), << 2 * offset[1], 2 * offset[2] >>)

RECURSIVE MoveEach(_, _, _)
MoveEach(w, ids, offset) ==
    IF Len(ids) = 0 THEN w
    ELSE MoveEach(updateNodeOBB(w, Head(ids),
                                [ w.nodes[Head(ids)] EXCEPT !.x = @ + offset[1],
                                                            !.y = @ + offset[2] ]),
                  Tail(ids), offset)

\* renderSnapLines clears the container, then draws the lines
renderSnapLines(w, snapLines) == [ w EXCEPT !.selection.snapContainer.lines = snapLines ]

\* Hide transformer and highlighters only once on the first move frame.
HideOnFirstMove(w, isFirstMoveFrame) ==
    IF isFirstMoveFrame
    THEN [ w EXCEPT !.transformable.visible = FALSE,
                    !.layersHighlighted = @ \ w.layersSelected ]
    ELSE w

MoveBy(w, move, isFirstMoveFrame) ==
    MoveEach(HideOnFirstMove(IF snapToPixelGridEnabled
                             THEN renderSnapLines(w, move.snapLines) ELSE w,
                             isFirstMoveFrame),
             SelectedSeq(w.layersSelected), move.offset)

handleSelectedMoving(w, sx, sy, ex, ey) ==
    MoveBy([ w EXCEPT !.transformable.status = "MOVING" ],
           MoveOffset(w, sx, sy, ex, ey),
           w.transformable.status # "MOVING")

\* setTransformerVisibility(camera, true), Highlighted added to every
\* selected node, status
Restore(w, status, visible) ==
    [ w EXCEPT !.transformable.visible = visible,
               !.layersHighlighted = @ \cup w.layersSelected,
               !.transformable.status = status ]

\* handleSelectedMoved without the history entry
handleSelectedMovedUnrecorded(w) == saveSelectedOBB(Restore(w, "MOVED", TRUE))

handleSelectedMoved(w) == saveSelectedOBB(Restore(record(w), "MOVED", TRUE))

handleSelectedResized(w) ==
    saveSelectedOBB(Restore(record(w), "RESIZED", w.transformable.visible))

handleSelectedRotated(w) ==
    saveSelectedOBB(Restore(record(w), "ROTATED", w.transformable.visible))

\* hideBrush without the visibility attribute
hideBrushShown(w) == [ w EXCEPT !.selection.mode = IDLE ]

hideBrush(w) ==
    [ w EXCEPT !.selection.brushContainer.visibility = "hidden",
               !.selection.mode = IDLE ]

renderBrush(w, x, y, width, height) ==
    [ w EXCEPT !.selection.brushContainer.visibility = "visible",
               !.selection.brushContainer.brush =
                   << [ x |-> x, y |-> y, width |-> width, height |-> height ] >> ]

\* Only select direct children of the camera
BrushHits(ns, minX, minY, maxX, maxY) ==
    LET Direct(e) == ~isUI[e] /\ parentOf[e] = CameraId
    IN SeqToSet(SelectSeq(elementsFromBBox(ns, minX, minY, maxX, maxY), Direct))

BrushSelect(w, selecteds, needHighlight) ==
    IF needHighlight
    THEN highlightNodes(selectNodes(w, selecteds, FALSE), selecteds)
    ELSE selectNodes(w, selecteds, FALSE)

BrushRect(w, brush, needHighlight) ==
    BrushSelect(w, BrushHits(w.nodes, viewport2Canvas(brush.x), viewport2Canvas(brush.y),
                             viewport2Canvas(brush.x + brush.width),
                             viewport2Canvas(brush.y + brush.height)),
                needHighlight)

applyBrushSelection(w, needHighlight) ==
    IF Len(w.selection.brushContainer.brush) = 0 THEN w
    ELSE BrushRect(w, w.selection.brushContainer.brush[1], needHighlight)

\* BrushFrom that shows the marquee at BRUSH_THRESHOLD already
BrushFromAtLeast(w, viewportX, viewportY, downX, downY) ==
    IF distanceAtLeast(viewportX, viewportY, downX, downY, BRUSH_THRESHOLD)
    THEN applyBrushSelection(
             renderBrush(w, Min(downX, viewportX), Min(downY, viewportY),
                         Abs(viewportX - downX), Abs(viewportY - downY)),
             TRUE)
    ELSE w

BrushFrom(w, viewportX, viewportY, downX, downY) ==
    IF distanceMoreThan(viewportX, viewportY, downX, downY, BRUSH_THRESHOLD)
    THEN applyBrushSelection(
             renderBrush(w, Min(downX, viewportX), Min(downY, viewportY),
                         Abs(viewportX - downX), Abs(viewportY - downY)),
             TRUE)
    ELSE w

handleBrushing(w, viewportX, viewportY) ==
    BrushFrom(w, viewportX, viewportY,
              cameraControl.pointerDownViewportX, cameraControl.pointerDownViewportY)

(***************************************************************************)
(* Select.execute, step by step.  in is the frame's input: the triggers,   *)
(* the pointer position, the shift key, the key, and the input points      *)
(* Select sees.                                                            *)
(***************************************************************************)
SetMode(w, m) == [ w EXCEPT !.selection.mode = m ]

AtStep(w, name) == [ w EXCEPT !.step = name ]

\* The click resolution shared by pointer-down (SELECT) and pointer-up
\* (MOVE below the threshold): toggle with shift, else select.
ClickSelect(w, toSelect, shiftKey) ==
    IF shiftKey /\ toSelect \in w.layersSelected
    THEN deselectNodes(w, { toSelect })
    ELSE selectNodes(w, { toSelect }, shiftKey)

DownStart(w, in) ==
    [ w EXCEPT !.selection.pointerDownViewportX = in.x,
               !.selection.pointerDownViewportY = in.y,
               !.selection.pointerDownShiftKey = in.shiftKey,
               !.selection.pointerDownSelectionHandled = FALSE ]

\* DownMode that only starts the brush: every mode but IDLE is left as it is
DownModeBrushOnly(w, in) ==
    IF w.selection.mode = IDLE
    THEN selectNodes(SetMode(w, READY_TO_BRUSH), {}, FALSE)
    ELSE w

\* DownMode with the snapshot taken for a move gesture as well
DownModeSavingMove(w, in) ==
    IF w.selection.mode = IDLE
    THEN selectNodes(SetMode(w, READY_TO_BRUSH), {}, FALSE)
    ELSE IF w.selection.mode = READY_TO_SELECT
    THEN IF /\ w.layersSelected # {}
            /\ hitTest(w.nodes, w.layersSelected, w.transformable.visible,
                       in.x, in.y).anchor = "INSIDE"
         THEN SetMode(w, MOVE)
         ELSE SetMode(w, SELECT)
    ELSE IF w.selection.mode = READY_TO_MOVE
    THEN SetMode(saveSelectedOBB(w), MOVE)
    ELSE IF w.selection.mode = READY_TO_RESIZE
    THEN SetMode(saveSelectedOBB(w), RESIZE)
    ELSE IF w.selection.mode = READY_TO_ROTATE
    THEN SetMode(saveSelectedOBB(w), ROTATE)
    ELSE w

DownMode(w, in) ==
    IF w.selection.mode = IDLE
    THEN selectNodes(SetMode(w, READY_TO_BRUSH), {}, FALSE)
    ELSE IF w.selection.mode = READY_TO_SELECT
    THEN IF /\ w.layersSelected # {}
            /\ hitTest(w.nodes, w.layersSelected, w.transformable.visible,
                       in.x, in.y).anchor = "INSIDE"
         THEN SetMode(w, MOVE)
         ELSE SetMode(w, SELECT)
    ELSE IF w.selection.mode = READY_TO_MOVE
    THEN SetMode(w, MOVE)
    ELSE IF w.selection.mode = READY_TO_RESIZE
    THEN SetMode(saveSelectedOBB(w), RESIZE)
    ELSE IF w.selection.mode = READY_TO_ROTATE
    THEN SetMode(saveSelectedOBB(w), ROTATE)
    ELSE w

DownClick(w, toSelect, shiftKey) ==
    IF toSelect # NoEntity
    THEN [ ClickSelect(w, toSelect, shiftKey)
             EXCEPT !.selection.pointerDownSelectionHandled = TRUE ]
    ELSE w

\* DownMove that advances to MOVE whatever the selection
DownMoveAlways(w) == SetMode(w, MOVE)

DownMove(w) == IF w.layersSelected # {} THEN SetMode(w, MOVE) ELSE w

DownSelect(w, in) ==
    IF w.selection.mode = SELECT
    THEN DownMove(DownClick(w, getTopmostEntity(w.nodes, in.x, in.y), in.shiftKey))
    ELSE w

PointerDownStep(w, in) ==
    IF in.pointerDownTrigger
    THEN DownSelect(DownMode(DownStart(AtStep(w, "pointer-down"), in), in), in)
    ELSE w

HoverKeep(w, mode, toHighlight) ==
    [ mode |-> mode, toHighlight |-> toHighlight,
      resizingAnchorName |-> w.selection.resizingAnchorName ]

\* HoverHit with the scene entity under the cursor taking priority over
\* the anchors of the transform box
HoverHitEntityFirst(keep, hit, selecteds, shiftKey) ==
    IF hit.anchor = "NONE" \/ keep.toHighlight # NoEntity THEN keep
    ELSE IF IsRotateCursor(hit.cursor)
    THEN [ keep EXCEPT !.resizingAnchorName = hit.anchor,
                       !.mode = READY_TO_ROTATE, !.toHighlight = NoEntity ]
    ELSE IF IsResizeCursor(hit.cursor)
    THEN [ keep EXCEPT !.resizingAnchorName = hit.anchor,
                       !.mode = READY_TO_RESIZE, !.toHighlight = NoEntity ]
    ELSE [ keep EXCEPT !.resizingAnchorName = hit.anchor,
                       !.mode = READY_TO_MOVE, !.toHighlight = NoEntity ]

\* HoverHit with the interior of the transform box always ready to move
HoverHitInsideMoves(keep, hit, selecteds, shiftKey) ==
    IF hit.anchor = "NONE" THEN keep
    ELSE IF IsRotateCursor(hit.cursor)
    THEN [ keep EXCEPT !.resizingAnchorName = hit.anchor,
                       !.mode = READY_TO_ROTATE, !.toHighlight = NoEntity ]
    ELSE IF IsResizeCursor(hit.cursor)
    THEN [ keep EXCEPT !.resizingAnchorName = hit.anchor,
                       !.mode = READY_TO_RESIZE, !.toHighlight = NoEntity ]
    ELSE [ keep EXCEPT !.resizingAnchorName = hit.anchor,
                       !.mode = READY_TO_MOVE, !.toHighlight = NoEntity ]

HoverHit(keep, hit, selecteds, shiftKey) ==
    IF hit.anchor = "NONE" THEN keep
    ELSE IF IsRotateCursor(hit.cursor)
    THEN [ keep EXCEPT !.resizingAnchorName = hit.anchor,
                       !.mode = READY_TO_ROTATE, !.toHighlight = NoEntity ]
    ELSE IF IsResizeCursor(hit.cursor)
    THEN [ keep EXCEPT !.resizingAnchorName = hit.anchor,
                       !.mode = READY_TO_RESIZE, !.toHighlight = NoEntity ]
    ELSE IF hit.anchor = "INSIDE"
    THEN IF keep.toHighlight # NoEntity /\ keep.toHighlight \notin selecteds
         THEN [ keep EXCEPT !.resizingAnchorName = hit.anchor, !.mode = READY_TO_SELECT ]
         ELSE IF shiftKey
         THEN [ keep EXCEPT !.resizingAnchorName = hit.anchor, !.mode = READY_TO_SELECT ]
         ELSE [ keep EXCEPT !.resizingAnchorName = hit.anchor,
                            !.mode = READY_TO_MOVE, !.toHighlight = NoEntity ]
    ELSE IF keep.toHighlight # NoEntity
    THEN [ keep EXCEPT !.resizingAnchorName = hit.anchor, !.mode = READY_TO_SELECT ]
    ELSE [ keep EXCEPT !.resizingAnchorName = hit.anchor ]

\* HoverAnchor without the guard on the active modes
HoverAnchorUnguarded(w, in, mode, toHighlight) ==
    IF w.layersSelected = {}
    THEN HoverKeep(w, mode, toHighlight)
    ELSE HoverHit(HoverKeep(w, mode, toHighlight),
                  hitTest(w.nodes, w.layersSelected, w.transformable.visible, in.x, in.y),
                  w.layersSelected, in.shiftKey)

\* The mode and hover target the transformer hit test gives
HoverAnchor(w, in, mode, toHighlight) ==
    IF w.layersSelected = {} \/ mode \in ActiveModes
    THEN HoverKeep(w, mode, toHighlight)
    ELSE HoverHit(HoverKeep(w, mode, toHighlight),
                  hitTest(w.nodes, w.layersSelected, w.transformable.visible, in.x, in.y),
                  w.layersSelected, in.shiftKey)

HoverWrite(w, in, h) ==
    [ w EXCEPT !.selection.pointerMoveViewportX = in.x,
               !.selection.pointerMoveViewportY = in.y,
               !.selection.mode = h.mode,
               !.selection.resizingAnchorName = h.resizingAnchorName ]

\* Only rebuild highlight list when hover target changes
HoverHighlight(w, in, h) ==
    IF \/ h.toHighlight # w.selection.prevHoverEntity
       \/ in.pointerDownTrigger
       \/ in.pointerUpTrigger
    THEN highlightNodes([ w EXCEPT !.selection.prevHoverEntity = h.toHighlight ],
                        IF h.toHighlight # NoEntity
                        THEN w.layersSelected \cup { h.toHighlight }
                        ELSE w.layersSelected)
    ELSE w

HoverApply(w, in, h) == HoverHighlight(HoverWrite(w, in, h), in, h)

\* HoverTop that never falls back to IDLE
HoverTopSelecting(w, in, top) ==
    HoverApply(w, in,
               HoverAnchor(w, in,
                           IF w.selection.mode \in ActiveModes THEN w.selection.mode
                           ELSE READY_TO_SELECT,
                           top))

HoverTop(w, in, top) ==
    HoverApply(w, in,
               HoverAnchor(w, in,
                           IF w.selection.mode \in ActiveModes THEN w.selection.mode
                           ELSE IF top # NoEntity THEN READY_TO_SELECT ELSE IDLE,
                           top))

\* HoverStep that recomputes in every frame
HoverStepAlways(w, in) == HoverTop(w, in, getTopmostEntity(w.nodes, in.x, in.y))

HoverStep(w, in) ==
    IF \/ Len(in.inputPoints) # 0
       \/ ~(\/ w.selection.pointerMoveViewportX # in.x
            \/ w.selection.pointerMoveViewportY # in.y
            \/ in.pointerDownTrigger
            \/ in.pointerUpTrigger)
    THEN w
    ELSE HoverTop(w, in, getTopmostEntity(w.nodes, in.x, in.y))

\* snapToGrid of a canvas coordinate when the pixel grid is enabled
Gridded(v) == IF snapToPixelGridEnabled THEN snapToGrid(v, GridSize) ELSE v

\* DragMode that moves only beyond DRAG_THRESHOLD, not at it
DragModeBeyond(w, in, sx, sy, ex, ey) ==
    IF w.selection.mode \in { READY_TO_BRUSH, BRUSH }
    THEN SetMode(handleBrushing(w, in.x, in.y), BRUSH)
    ELSE IF w.selection.mode = MOVE
    THEN IF distanceMoreThan(in.x, in.y, w.selection.pointerDownViewportX,
                             w.selection.pointerDownViewportY, DRAG_THRESHOLD)
         THEN handleSelectedMoving(w, sx, sy, ex, ey)
         ELSE w
    ELSE IF w.selection.mode = RESIZE
    THEN handleSelectedResizing(w, ex, ey)
    ELSE w

\* DragMode that moves the selection in ROTATE as it does in MOVE
DragModeRotating(w, in, sx, sy, ex, ey) ==
    IF w.selection.mode \in { READY_TO_BRUSH, BRUSH }
    THEN SetMode(handleBrushing(w, in.x, in.y), BRUSH)
    ELSE IF w.selection.mode = MOVE
    THEN IF distanceAtLeast(in.x, in.y, w.selection.pointerDownViewportX,
                            w.selection.pointerDownViewportY, DRAG_THRESHOLD)
         THEN handleSelectedMoving(w, sx, sy, ex, ey)
         ELSE w
    ELSE IF w.selection.mode = RESIZE
    THEN handleSelectedResizing(w, ex, ey)
    ELSE IF w.selection.mode = ROTATE
    THEN handleSelectedMoving(w, sx, sy, ex, ey)
    ELSE w

DragMode(w, in, sx, sy, ex, ey) ==
    IF w.selection.mode \in { READY_TO_BRUSH, BRUSH }
    THEN SetMode(handleBrushing(w, in.x, in.y), BRUSH)
    ELSE IF w.selection.mode = MOVE
    THEN IF distanceAtLeast(in.x, in.y, w.selection.pointerDownViewportX,
                            w.selection.pointerDownViewportY, DRAG_THRESHOLD)
         THEN handleSelectedMoving(w, sx, sy, ex, ey)
         ELSE w
    ELSE IF w.selection.mode = RESIZE
    THEN handleSelectedResizing(w, ex, ey)
    ELSE w

\* One input point of the drag step
DragPoint(w, in, point) ==
    IF point.prevPoint[1] = in.x /\ point.prevPoint[2] = in.y THEN w
    ELSE DragMode(w, in,
                  Gridded(viewport2Canvas(point.prevPoint[1])),
                  Gridded(viewport2Canvas(point.prevPoint[2])),
                  Gridded(viewport2Canvas(in.x)),
                  Gridded(viewport2Canvas(in.y)))

RECURSIVE DragStep(_, _, _)
DragStep(w, in, points) ==
    IF Len(points) = 0 THEN w
    ELSE DragStep(DragPoint(w, in, Head(points)), in, Tail(points))

\* KeyBrush that leaves the brush running
KeyBrushKeeping(w) == w

KeyBrush(w) == IF w.selection.mode = BRUSH THEN hideBrush(w) ELSE w

KeyStep(w, in) ==
    IF in.key = "Escape"
    THEN KeyBrush(highlightNodes(selectNodes(w, {}, FALSE), {}))
    ELSE w

clearSnapLines(w) == [ w EXCEPT !.selection.snapContainer.lines = {} ]

\* Below threshold: treat as click, select element under cursor
UpClick(w, toSelect) ==
    [ (IF toSelect # NoEntity /\ ~w.selection.pointerDownSelectionHandled
       THEN ClickSelect(w, toSelect, w.selection.pointerDownShiftKey)
       ELSE w)
      EXCEPT !.selection.pointerDownSelectionHandled = FALSE ]

\* UpMode that ends every gesture in IDLE
UpModeToIdle(w, in) ==
    IF w.selection.mode = BRUSH
    THEN applyBrushSelection(hideBrush(w), TRUE)
    ELSE IF w.selection.mode = MOVE
    THEN SetMode(IF ~distanceAtLeast(in.x, in.y, w.selection.pointerDownViewportX,
                                     w.selection.pointerDownViewportY, DRAG_THRESHOLD)
                 THEN UpClick(w, getTopmostEntity(w.nodes, in.x, in.y))
                 ELSE handleSelectedMoved(w),
                 IDLE)
    ELSE IF w.selection.mode \in { RESIZE, READY_TO_RESIZE }
    THEN SetMode(handleSelectedResized(w), IDLE)
    ELSE IF w.selection.mode = ROTATE
    THEN SetMode(handleSelectedRotated(w), IDLE)
    ELSE w

UpMode(w, in) ==
    IF w.selection.mode = BRUSH
    THEN applyBrushSelection(hideBrush(w), TRUE)
    ELSE IF w.selection.mode = MOVE
    THEN SetMode(IF ~distanceAtLeast(in.x, in.y, w.selection.pointerDownViewportX,
                                     w.selection.pointerDownViewportY, DRAG_THRESHOLD)
                 THEN UpClick(w, getTopmostEntity(w.nodes, in.x, in.y))
                 ELSE handleSelectedMoved(w),
                 READY_TO_MOVE)
    ELSE IF w.selection.mode \in { RESIZE, READY_TO_RESIZE }
    THEN SetMode(handleSelectedResized(w), READY_TO_RESIZE)
    ELSE IF w.selection.mode = ROTATE
    THEN SetMode(handleSelectedRotated(w), READY_TO_ROTATE)
    ELSE w

PointerUpStep(w, in) ==
    IF in.pointerUpTrigger
    THEN clearSnapLines(UpMode(AtStep(w, "pointer-up"), in))
    ELSE w

\* RunSteps with the pointer-up step run first
RunStepsUpFirst(w, in) ==
    KeyStep(AtStep(
        DragStep(AtStep(
            HoverStep(AtStep(PointerDownStep(PointerUpStep(w, in), in), "hover"), in),
            "drag"), in, in.inputPoints),
        "key"), in)

\* pointer-down, hover, drag, key, pointer-up, in this order
RunSteps(w, in) ==
    PointerUpStep(
        KeyStep(AtStep(
            DragStep(AtStep(
                HoverStep(AtStep(PointerDownStep(w, in), "hover"), in),
                "drag"), in, in.inputPoints),
            "key"), in),
        in)

\* Bypass that clears the highlight only, whatever the tool
BypassHighlightOnly(w, pen) ==
    IF pen = "SELECT" THEN w ELSE highlightNodes(w, {})

\* "if (pen !== Pen.SELECT)": clear the selection and the highlight
Bypass(w, pen) ==
    IF pen = "SELECT" THEN w
    ELSE highlightNodes(IF pen \notin { "VECTOR_NETWORK", "ERASER" }
                        THEN selectNodes(w, {}, FALSE) ELSE w, {})

World ==
    [ nodes |-> nodes,
      layersSelected |-> layersSelected,
      layersHighlighted |-> layersHighlighted,
      selection |-> IF Len(selections) = 0 THEN NewSelection(nodes) ELSE selections[1],
      transformable |-> transformable,
      recordLog |-> << >>,
      saveLog |-> << >>,
      step |-> "",
      ran |-> FALSE ]

\* execute() for the one camera: the state it leaves, and whether the state
\* machine ran (ran = FALSE: the tool bypass returned first).
execute(in) ==
    IF penbarSelected \notin { "SELECT", "VECTOR_NETWORK" }
    THEN Bypass(World, penbarSelected)
    ELSE [ RunSteps(Bypass(World, penbarSelected), in) EXCEPT !.ran = TRUE ]

(***************************************************************************)
(* The frames.  The input system (outside Select) creates an InputPoint    *)
(* at pointer-down with prevPoint = the pointer, sets prevPoint to the     *)
(* pointer at the end of every frame, and deletes the point at pointer-up. *)
(* Whether Select already sees the point in the frame that creates it, and *)
(* still sees it in the frame that deletes it, is decided by the system    *)
(* schedule outside Select: a pointer-down frame and a pointer-up frame    *)
(* take either outcome (created, deleted).                                 *)
(***************************************************************************)
MaxFrames == 4

Input(down, up, p, shiftKey, key, points) ==
    [ pointerDownTrigger |-> down, pointerUpTrigger |-> up,
      x |-> p[1], y |-> p[2], shiftKey |-> shiftKey, key |-> key,
      inputPoints |-> points ]

Point(p) == [ prevPoint |-> p ]

\* The mode of the selection context before a frame (IDLE when execute()
\* has yet to create it)
ModeBefore == IF Len(selections) > 0 THEN selections[1].mode ELSE IDLE

\* The marquee shown before a frame
BrushBefore ==
    IF Len(selections) > 0 /\ selections[1].brushContainer.visibility = "visible"
    THEN selections[1].brushContainer.brush
    ELSE << >>

\* What is remembered of a press: the scene and the selection just before
\* the pointer-down, for a press that enters MOVE the nodes it moves that
\* were highlighted just before the pointer-down (lit),
\* the node under it, whether the pointer-down came at another point than
\* the last frame's pointer, the mode the pointer-down frame found and left,
\* the steps that called record() (log) and saveSelectedOBB() (saves) since,
\* whether the pointer ever was DRAG_THRESHOLD away, and the mode and the
\* marquee the pointer-up frame found and the key it carried.  Outside a
\* press, log and saves hold the calls of the last frame.
Press(p, shiftKey) ==
    [ phase |-> "held", nodes |-> nodes, layersSelected |-> layersSelected,
      lit |-> {},
      shiftKey |-> shiftKey, target |-> getTopmostEntity(nodes, p[1], p[2]),
      jumped |-> pointerViewport # p,
      downMode |-> ModeBefore, modeAfterDown |-> "", log |-> << >>,
      saves |-> << >>,
      dragged |-> FALSE, upMode |-> "", upBrush |-> << >>, upKey |-> "" ]

NoPress ==
    [ phase |-> "none", nodes |-> InitNodes, layersSelected |-> {},
      lit |-> {},
      shiftKey |-> FALSE, target |-> NoEntity,
      jumped |-> FALSE,
      downMode |-> "", modeAfterDown |-> "", log |-> << >>,
      saves |-> << >>,
      dragged |-> FALSE, upMode |-> "", upBrush |-> << >>, upKey |-> "" ]

Held == IF pressed THEN press ELSE NoPress

\* The containers execute() appends to the SVG layer with a new context
Overlays == { "brushContainer", "snapContainer" }

\* The state one frame leaves: execute() on the input, then the input
\* system's bookkeeping.
Frame(in, pressed1, press0) ==
    /\ frames < MaxFrames
    /\ \E r \in { execute(in) } :
       /\ frames' = frames + 1
       /\ nodes' = r.nodes
       /\ layersSelected' = r.layersSelected
       /\ layersHighlighted' = r.layersHighlighted
       /\ transformable' = r.transformable
       /\ selections' = IF r.ran THEN << r.selection >> ELSE selections
       /\ svgLayer' = IF r.ran /\ Len(selections) = 0 THEN Overlays ELSE svgLayer
       /\ pointerViewport' = << in.x, in.y >>
       /\ pressed' = pressed1
       /\ cameraControl' =
            IF in.pointerDownTrigger
            THEN [ pointerDownViewportX |-> in.x, pointerDownViewportY |-> in.y ]
            ELSE cameraControl
       /\ press' = [ press0 EXCEPT
                       !.phase = IF in.pointerUpTrigger THEN "up" ELSE @,
                       !.modeAfterDown = IF in.pointerDownTrigger /\ r.ran
                                         THEN r.selection.mode ELSE @,
                       !.lit = IF in.pointerDownTrigger /\ r.ran /\ r.selection.mode = MOVE
                               THEN layersHighlighted \cap r.layersSelected ELSE @,
                       !.log = @ \o r.recordLog,
                       !.saves = @ \o r.saveLog,
                       !.upKey = IF in.pointerUpTrigger THEN in.key ELSE @,
                       !.upMode = IF in.pointerUpTrigger THEN ModeBefore ELSE @,
                       !.upBrush = IF in.pointerUpTrigger THEN BrushBefore ELSE @,
                       !.dragged = @ \/ (pressed /\ press0.phase = "held" /\
                                          distanceAtLeast(in.x, in.y,
                                              cameraControl.pointerDownViewportX,
                                              cameraControl.pointerDownViewportY,
                                              DRAG_THRESHOLD)) ]
       /\ UNCHANGED << penbarSelected, snapToPixelGridEnabled, calc, tasks >>

FrameDown(p, shiftKey, created) ==
    /\ ~pressed
    /\ Frame(Input(TRUE, FALSE, p, shiftKey, "",
                   IF created THEN << Point(p) >> ELSE << >>),
             TRUE, Press(p, shiftKey))

\* The shift key is read by the hover step only
FrameMove(p, shiftKey) ==
    /\ pressed => ~shiftKey
    /\ Frame(Input(FALSE, FALSE, p, shiftKey, "",
                   IF pressed THEN << Point(pointerViewport) >> ELSE << >>),
             pressed, Held)

FrameUp(p, deleted) ==
    /\ pressed
    /\ Frame(Input(FALSE, TRUE, p, FALSE, "",
                   IF deleted THEN << >> ELSE << Point(pointerViewport) >>),
             FALSE, press)

FrameKey(key) ==
    Frame(Input(FALSE, FALSE, pointerViewport, FALSE, key,
                IF pressed THEN << Point(pointerViewport) >> ELSE << >>),
          pressed, Held)

\* Finalize that leaves the overlay containers attached
FinalizeKeepingOverlays ==
    /\ Len(selections) > 0
    /\ frames < MaxFrames
    /\ frames' = frames + 1
    /\ selections' = << >>
    /\ press' = Held
    /\ UNCHANGED << nodes, layersSelected, layersHighlighted, transformable,
                    penbarSelected, snapToPixelGridEnabled, pointerViewport,
                    pressed, cameraControl, svgLayer, calc, tasks >>

\* Select.finalize()
Finalize ==
    /\ Len(selections) > 0
    /\ frames < MaxFrames
    /\ frames' = frames + 1
    /\ selections' = << >>
    /\ svgLayer' = { }
    /\ press' = Held
    /\ UNCHANGED << nodes, layersSelected, layersHighlighted, transformable,
                    penbarSelected, snapToPixelGridEnabled, pointerViewport,
                    pressed, cameraControl, calc, tasks >>

\* The selection the application starts with (api.selectNodes)
InitSelections == { {}, { "A" } }

NoCalc == [ op |-> "none" ]

\* No callback queued, no timer pending, no call made
NoTasks == [ nextTick |-> << >>, timeouts |-> << >>, calls |-> << >>, made |-> 0 ]

\* The scene before the first frame
InitScene ==
    /\ nodes = InitNodes
    /\ layersHighlighted = {}
    /\ selections = << >>
    /\ transformable = [ status |-> "IDLE", visible |-> TRUE ]
    /\ penbarSelected = "SELECT"
    /\ pointerViewport = << 0, 0 >>
    /\ pressed = FALSE
    /\ cameraControl = [ pointerDownViewportX |-> 0, pointerDownViewportY |-> 0 ]
    /\ press = NoPress
    /\ frames = 0
    /\ svgLayer = { }
    /\ tasks = NoTasks

Init ==
    /\ InitScene
    /\ layersSelected \in InitSelections
    /\ snapToPixelGridEnabled \in BOOLEAN
    /\ calc = NoCalc

Next ==
    \/ \E p \in Points, shiftKey \in BOOLEAN, created \in BOOLEAN :
           FrameDown(p, shiftKey, created)
    \/ \E p \in Points, shiftKey \in BOOLEAN : FrameMove(p, shiftKey)
    \/ \E p \in Points, deleted \in BOOLEAN : FrameUp(p, deleted)
    \/ FrameKey("Escape")
    \/ Finalize

Spec == Init /\ [][Next]_vars

(***************************************************************************)
(* The frames under any tool.  The application switches the tool between   *)
(* frames (AppState.penbarSelected), and a frame may carry a pointer-down  *)
(* and a pointer-up together (a press begun and ended between two frames), *)
(* or a pointer-up together with Escape.  The pointer stays on three       *)
(* points: the canvas origin, the interior of node A and a corner of it.   *)
(***************************************************************************)
ToolPoints == { <<0, 0>>, <<13, 13>>, <<16, 16>> }

\* api.setAppState({ penbarSelected: pen })
SetPen(pen) ==
    /\ pen # penbarSelected
    /\ penbarSelected' = pen
    /\ UNCHANGED << nodes, layersSelected, layersHighlighted, selections, transformable,
                    snapToPixelGridEnabled, pointerViewport, pressed, cameraControl,
                    press, frames, svgLayer, calc, tasks >>

\* A pointer-down and a pointer-up in one frame; seen: Select sees the
\* InputPoint of the press
FrameTap(p, seen) ==
    /\ ~pressed
    /\ Frame(Input(TRUE, TRUE, p, FALSE, "", IF seen THEN << Point(p) >> ELSE << >>),
             FALSE, Press(p, FALSE))

\* A pointer-up in the frame that carries Escape
FrameUpKey(p, deleted) ==
    /\ pressed
    /\ Frame(Input(FALSE, TRUE, p, FALSE, "Escape",
                   IF deleted THEN << >> ELSE << Point(pointerViewport) >>),
             FALSE, press)

ToolNext ==
    \/ \E p \in ToolPoints, created \in BOOLEAN : FrameDown(p, FALSE, created)
    \/ \E p \in ToolPoints : FrameMove(p, FALSE)
    \/ \E p \in ToolPoints, deleted \in BOOLEAN : FrameUp(p, deleted)
    \/ \E p \in ToolPoints, seen \in BOOLEAN : FrameTap(p, seen)
    \/ \E p \in ToolPoints, deleted \in BOOLEAN : FrameUpKey(p, deleted)
    \/ FrameKey("Escape")
    \/ Finalize
    \/ \E pen \in Pen : SetPen(pen)

ToolInit ==
    /\ InitScene
    /\ layersSelected \in InitSelections
    /\ snapToPixelGridEnabled = FALSE
    /\ calc = NoCalc

ToolSpec == ToolInit /\ [][ToolNext]_vars

(***************************************************************************)
(* The frames with the pixel grid enabled, the application switching       *)
(* between the select tool and the hand tool between frames.               *)
(***************************************************************************)
SnapInit ==
    /\ InitScene
    /\ layersSelected \in InitSelections
    /\ snapToPixelGridEnabled = TRUE
    /\ calc = NoCalc

SnapNext ==
    \/ \E p \in ToolPoints, created \in BOOLEAN : FrameDown(p, FALSE, created)
    \/ \E p \in ToolPoints : FrameMove(p, FALSE)
    \/ \E p \in ToolPoints, deleted \in BOOLEAN : FrameUp(p, deleted)
    \/ FrameKey("Escape")
    \/ Finalize
    \/ \E pen \in { "SELECT", "HAND" } : SetPen(pen)

SnapSpec == SnapInit /\ [][SnapNext]_vars


(***************************************************************************)
(* computeOBBFromSavedMask on its own: one drag frame of a resize gesture. *)
(* A drag frame computes the new OBB from the snapshot taken at the        *)
(* gesture start and the cursor in the frame of the saved mask, and from   *)
(* nothing an earlier drag frame has left.  Lengths are in steps; the      *)
(* saved boxes and the cursors are chosen around a 100 x 100 box.          *)
(***************************************************************************)
MaxCursor == 4

CursorCoords == { 50 * k : k \in -MaxCursor .. MaxCursor }

SavedOBBs ==
    { [ x |-> x, y |-> 0, width |-> w, height |-> h,
        rotation |-> q, scaleX |-> 1, scaleY |-> 1 ] :
          x \in { 0, 300 }, w \in { 100, 200 }, h \in { 100, 200 }, q \in 0 .. 3 }

\* The scene stays as it is while a computation is followed on its own
SceneUnchanged ==
    UNCHANGED << nodes, layersSelected, layersHighlighted, selections, transformable,
                 penbarSelected, snapToPixelGridEnabled, pointerViewport, pressed,
                 cameraControl, press, frames, svgLayer, tasks >>

SceneAtRest ==
    /\ InitScene
    /\ layersSelected = {}
    /\ snapToPixelGridEnabled = FALSE

\* saveSelectedOBB at the gesture start, for the anchor under the pointer
ResizeInit ==
    /\ SceneAtRest
    /\ calc \in { [ op |-> "saved", obb |-> o, anchorName |-> a ] :
                      o \in SavedOBBs, a \in CornerAnchors \cup EdgeAnchors }

Resized(box, x, y) ==
    [ op |-> "resized", obb |-> calc.obb, anchorName |-> calc.anchorName,
      x |-> x, y |-> y, box |-> box,
      newObb |-> IF box.skip THEN calc.obb
                 ELSE ResizedOBB(box, MaskOf(calc.obb), calc.obb) ]

\* One drag frame with the cursor at (x, y) in the frame of the saved mask
ResizeFrame(x, y) ==
    /\ calc.op = "saved"
    /\ \E box \in { ResizedLocalBox(calc.anchorName, x, y,
                                      SavedCos(calc.obb, Hypotenuse2(calc.obb)),
                                      SavedSin(calc.obb, Hypotenuse2(calc.obb)),
                                      calc.obb.width, calc.obb.height) } :
           calc' = Resized(box, x, y)
    /\ SceneUnchanged

ResizeNext == \E x \in CursorCoords, y \in CursorCoords : ResizeFrame(x, y)

ResizeSpec == ResizeInit /\ [][ResizeNext]_vars

(***************************************************************************)
(* updateAnchorPositions on its own: one drag frame of a resize gesture    *)
(* followed on the four corner anchors of the transform box, which live in *)
(* the frame of the mask.  The saved boxes include the degenerate ones: no *)
(* width, no height, or neither.  A saved cos or sin is below 1e-10        *)
(* exactly when its numerator is 0, lengths being whole steps.             *)
(***************************************************************************)
\* The corner anchors of the transform box of a saved OBB
AnchorsOf(obb) ==
    [ tl |-> << 0, 0 >>, tr |-> << obb.width, 0 >>,
      bl |-> << 0, obb.height >>, br |-> << obb.width, obb.height >> ]

AnchorOBBs ==
    { [ x |-> 0, y |-> 0, width |-> w, height |-> h,
        rotation |-> q, scaleX |-> 1, scaleY |-> 1 ] :
          w \in { 0, 100, 200 }, h \in { 0, 100, 200 }, q \in { 0, 1 } }

\* The dragged anchor follows the cursor: a corner anchor to the point at
\* the cursor's distance from the opposite corner along the saved
\* diagonal, an edge anchor in its own coordinate
MoveAnchor(a, anchorName, x, y, cos, sin) ==
    IF anchorName = "TOP_LEFT"
    THEN LET hc == MulSqrtRatio(cos.num, (a.br[1] - x) * (a.br[1] - x)
                                          + (a.br[2] - y) * (a.br[2] - y), cos.h2)
             hs == MulSqrtRatio(sin.num, (a.br[1] - x) * (a.br[1] - x)
                                          + (a.br[2] - y) * (a.br[2] - y), sin.h2)
         IN [ a EXCEPT !.tl = << a.br[1] - hc * (IF x > a.br[1] THEN -1 ELSE 1),
                                 a.br[2] - hs * (IF y > a.br[2] THEN -1 ELSE 1) >> ]
    ELSE IF anchorName = "TOP_RIGHT"
    THEN LET hc == MulSqrtRatio(cos.num, (x - a.bl[1]) * (x - a.bl[1])
                                          + (a.bl[2] - y) * (a.bl[2] - y), cos.h2)
             hs == MulSqrtRatio(sin.num, (x - a.bl[1]) * (x - a.bl[1])
                                          + (a.bl[2] - y) * (a.bl[2] - y), sin.h2)
             cx == a.bl[1] + hc * (IF x < a.bl[1] THEN -1 ELSE 1)
             cy == a.bl[2] - hs * (IF y > a.bl[2] THEN -1 ELSE 1)
         IN [ a EXCEPT !.tr = << cx, cy >>, !.tl[2] = cy, !.br[1] = cx ]
    ELSE IF anchorName = "BOTTOM_LEFT"
    THEN LET hc == MulSqrtRatio(cos.num, (a.tr[1] - x) * (a.tr[1] - x)
                                          + (y - a.tr[2]) * (y - a.tr[2]), cos.h2)
             hs == MulSqrtRatio(sin.num, (a.tr[1] - x) * (a.tr[1] - x)
                                          + (y - a.tr[2]) * (y - a.tr[2]), sin.h2)
             cx == a.tr[1] - hc * (IF a.tr[1] < x THEN -1 ELSE 1)
             cy == a.tr[2] + hs * (IF y < a.tr[2] THEN -1 ELSE 1)
         IN [ a EXCEPT !.bl = << cx, cy >>, !.tl[1] = cx, !.br[2] = cy ]
    ELSE IF anchorName = "BOTTOM_RIGHT"
    THEN LET hc == MulSqrtRatio(cos.num, (x - a.tl[1]) * (x - a.tl[1])
                                          + (y - a.tl[2]) * (y - a.tl[2]), cos.h2)
             hs == MulSqrtRatio(sin.num, (x - a.tl[1]) * (x - a.tl[1])
                                          + (y - a.tl[2]) * (y - a.tl[2]), sin.h2)
         IN [ a EXCEPT !.br = << a.tl[1] + hc * (IF x < a.tl[1] THEN -1 ELSE 1),
                                 a.tl[2] + hs * (IF y < a.tl[2] THEN -1 ELSE 1) >> ]
    ELSE IF anchorName = "TOP_CENTER" THEN [ a EXCEPT !.tl[2] = y ]
    ELSE IF anchorName = "BOTTOM_CENTER" THEN [ a EXCEPT !.br[2] = y ]
    ELSE IF anchorName = "MIDDLE_LEFT" THEN [ a EXCEPT !.tl[1] = x ]
    ELSE IF anchorName = "MIDDLE_RIGHT" THEN [ a EXCEPT !.br[1] = x ]
    ELSE a

\* Aspect ratio enforcement for edge anchors, guarded against degenerate
\* cos/sin; prev holds the anchors before the frame, a the anchors after
\* the dragged one has followed the cursor.  Halves are rounded to steps.
EnforceAspect(prev, a, anchorName, cos, sin) ==
    IF anchorName \in { "MIDDLE_LEFT", "MIDDLE_RIGHT" }
    THEN IF cos.num = 0 THEN a
         ELSE LET deltaY == RoundDiv(Abs(a.br[1] - a.tl[1]) * sin.num, cos.num)
                                - (prev.br[2] - prev.tl[2])
              IN [ a EXCEPT !.br[2] = @ + RoundDiv(deltaY, 2),
                            !.tl[2] = @ - RoundDiv(deltaY, 2) ]
    ELSE IF anchorName \in { "TOP_CENTER", "BOTTOM_CENTER" }
    THEN IF cos.num = 0 \/ sin.num = 0 THEN a
         ELSE LET deltaX == RoundDiv(Abs(a.br[2] - a.tl[2]) * cos.num, sin.num)
                                - (prev.br[1] - prev.tl[1])
              IN [ a EXCEPT !.br[1] = @ + RoundDiv(deltaX, 2),
                            !.tl[1] = @ - RoundDiv(deltaX, 2) ]
    ELSE a

updateAnchorPositions(a, anchorName, x, y, cos, sin) ==
    EnforceAspect(a, MoveAnchor(a, anchorName, x, y, cos, sin), anchorName, cos, sin)

\* saveSelectedOBB at the gesture start, the anchors placed on the box
AnchorInit ==
    /\ SceneAtRest
    /\ calc \in { [ op |-> "placed", obb |-> o, anchorName |-> a,
                    anchors |-> AnchorsOf(o), saved |-> m ] :
                      o \in AnchorOBBs, a \in CornerAnchors \cup EdgeAnchors,
                      m \in BOOLEAN }

\* handleSelectedResizing: one drag frame with the cursor at (x, y) in the
\* frame of the saved mask; updateAnchorPositions, then
\* computeOBBFromSavedMask.  The frame is followed on the anchors and on a
\* scene whose selected node A is the saved box, the mask matrix saved at
\* the gesture start (saved) or missing (no mask when saveSelectedOBB ran).
AnchorNext ==
    /\ calc.op = "placed"
    /\ \E x \in CursorCoords, y \in CursorCoords :
       \E box \in { ResizedLocalBox(calc.anchorName, x, y,
                                    SavedCos(calc.obb, Hypotenuse2(calc.obb)),
                                    SavedSin(calc.obb, Hypotenuse2(calc.obb)),
                                    calc.obb.width, calc.obb.height) },
          w0 \in { SaveBox([ World EXCEPT !.nodes["A"] = calc.obb,
                                          !.layersSelected = { "A" },
                                          !.selection.resizingAnchorName =
                                              calc.anchorName ],
                            calc.obb) } :
       \E w \in { IF calc.saved THEN w0
                  ELSE [ w0 EXCEPT !.selection.savedMaskMatrix = << >>,
                                   !.selection.savedMaskMatrixInv = << >> ] } :
           calc' = [ op |-> "dragged", obb |-> calc.obb, anchorName |-> calc.anchorName,
                     anchors |-> calc.anchors, saved |-> calc.saved, x |-> x, y |-> y,
                     newAnchors |-> updateAnchorPositions(
                                        calc.anchors, calc.anchorName, x, y,
                                        SavedCos(calc.obb, Hypotenuse2(calc.obb)),
                                        SavedSin(calc.obb, Hypotenuse2(calc.obb))),
                     box |-> box,
                     fitted |-> calc.saved /\ ~box.skip,
                     newObb |-> IF box.skip \/ ~calc.saved THEN calc.obb
                                ELSE ResizedOBB(box, MaskOf(calc.obb), calc.obb),
                     nodesBefore |-> w.nodes,
                     nodesAfter |-> ResizeAt(w, << x, y >>).nodes ]
    /\ SceneUnchanged

AnchorSpec == AnchorInit /\ [][AnchorNext]_vars

(***************************************************************************)
(* fitSelected on its own, for one selected node: the snapshot of the node *)
(* and the OBB saved at the gesture start, the node's parent transform,    *)
(* and the OBB to fit, here the saved one.  The second call finds the      *)
(* scale signs the first has written to the saved OBB.                     *)
(***************************************************************************)
MaxNodeSize == 2

\* Node snapshots: sizes from 0 (a node without extent on one axis) up
NodeSnapshots ==
    { [ x |-> x, y |-> 10, width |-> 50 * w, height |-> 50 * h,
        rotation |-> q, scaleX |-> 1, scaleY |-> 1 ] :
          x \in { 0, 25 }, w \in 0 .. MaxNodeSize, h \in 0 .. MaxNodeSize, q \in 0 .. 3 }

ParentTransforms ==
    { MatIdentity, MatTRS(200, 200, 0, 1, 1, 1), MatTRS(200, 100, 1, 1, 1, 1) }

FitInit ==
    /\ SceneAtRest
    /\ calc \in { [ op |-> "snapshot", obb |-> o, oldNode |-> n, parentTransform |-> t ] :
                      o \in { b \in SavedOBBs : b.rotation < 2 /\ b.x = 300 },
                      n \in NodeSnapshots, t \in ParentTransforms }

Fitted(op, written) ==
    [ op |-> op, obb |-> [ calc.obb EXCEPT !.scaleX = written.scaleX,
                                           !.scaleY = written.scaleY ],
      oldNode |-> calc.oldNode, parentTransform |-> calc.parentTransform,
      start |-> IF calc.op = "snapshot" THEN calc.obb ELSE calc.start,
      delta |-> DeltaTransform(calc.obb, calc.obb),
      first |-> IF calc.op = "snapshot" THEN written ELSE calc.written,
      written |-> written ]

FitWith(op) ==
    /\ \E written \in { FitNode(calc.oldNode, calc.parentTransform,
                                 DeltaTransform(calc.obb, calc.obb), calc.obb, calc.obb) } :
           calc' = Fitted(op, written)
    /\ SceneUnchanged

\* fitSelected(api, selection.obb, selection)
Fit == calc.op = "snapshot" /\ FitWith("fitted")

\* the same call again
FitAgain == calc.op = "fitted" /\ FitWith("fitted again")

FitNext == Fit \/ FitAgain

FitSpec == FitInit /\ [][FitNext]_vars

(***************************************************************************)
(* updateAndSelectNodes(api, appState, nodes).  The call queues a callback *)
(* with api.runAtNextTick; the callback updates the nodes, records, and    *)
(* sets a timer whose callback unhighlights and selects.  Callbacks queued *)
(* for the next tick run in the order queued, timers of equal delay in the *)
(* order set.  tasks.calls is the list of the API calls made, each with    *)
(* the number of the updateAndSelectNodes call it belongs to (history).    *)
(* Between the callbacks the hover step of Select may change the           *)
(* highlight.                                                              *)
(***************************************************************************)
MaxCalls == 2

\* The nodes a caller passes: node A or B with a new position
SerializedNodes ==
    { [ id |-> i, obb |-> [ InitNodes[i] EXCEPT !.x = @ + Unit ] ] : i \in { "A", "B" } }

\* The lists a caller passes: one node, or two different ones
NodeLists ==
    { << n >> : n \in SerializedNodes } \cup
    { l \in { << n, m >> : n \in SerializedNodes, m \in SerializedNodes } : l[1] # l[2] }

\* The part of the state the callbacks read and write
ApiState ==
    [ nodes |-> nodes, layersSelected |-> layersSelected,
      layersHighlighted |-> layersHighlighted,
      timeouts |-> tasks.timeouts, calls |-> tasks.calls ]

Logged(a, cb, name, arg) ==
    [ a EXCEPT !.calls = Append(@, [ call |-> cb.call, api |-> name, arg |-> arg ]) ]

\* api.updateNodes(nodes): every node of the list takes the geometry given
RECURSIVE updateNodes(_, _)
updateNodes(a, list) ==
    IF list = << >> THEN a
    ELSE updateNodes(updateNodeOBB(a, Head(list).id, Head(list).obb), Tail(list))

unhighlightNodes(a, ids) == [ a EXCEPT !.layersHighlighted = @ \ ids ]

ApiUpdateNodes(a, cb) == Logged(updateNodes(a, cb.nodes), cb, "updateNodes", cb.nodes)

ApiRecord(a, cb) == Logged(a, cb, "record", << >>)

ApiUnhighlightNodes(a, cb) ==
    Logged(unhighlightNodes(a, cb.appState.layersHighlighted), cb,
           "unhighlightNodes", << cb.appState.layersHighlighted >>)

\* api.selectNodes([nodes[0]])
ApiSelectNodes(a, cb) ==
    Logged(selectNodes(a, { cb.nodes[1].id }, FALSE), cb, "selectNodes", << cb.nodes[1] >>)

\* setTimeout(callback, 100)
SetTimeout(a, cb) == [ a EXCEPT !.timeouts = Append(@, cb) ]

\* The timer callback
TimeoutCallback(a, cb) == ApiSelectNodes(ApiUnhighlightNodes(a, cb), cb)

\* The next-tick callback with the selection made at once
NextTickCallbackSelecting(a, cb) ==
    ApiRecord(ApiSelectNodes(ApiUpdateNodes(a, cb), cb), cb)

\* The callback handed to runAtNextTick
NextTickCallback(a, cb) == SetTimeout(ApiRecord(ApiUpdateNodes(a, cb), cb), cb)

UpdateRest ==
    << selections, transformable, penbarSelected, snapToPixelGridEnabled,
       pointerViewport, pressed, cameraControl, press, frames, svgLayer, calc >>

UpdateInit ==
    /\ InitScene
    /\ layersSelected \in InitSelections
    /\ snapToPixelGridEnabled = FALSE
    /\ calc = NoCalc

\* The call: the callback is queued with the caller's list and app state
updateAndSelectNodes(list) ==
    /\ tasks.made < MaxCalls
    /\ tasks' = [ tasks EXCEPT
                    !.made = @ + 1,
                    !.nextTick = Append(@, [ call |-> tasks.made + 1, nodes |-> list,
                                             appState |-> [ layersHighlighted |->
                                                                layersHighlighted ] ]) ]
    /\ UNCHANGED << nodes, layersSelected, layersHighlighted >>
    /\ UNCHANGED UpdateRest

\* The state a callback leaves
Ran(a, nextTick) ==
    /\ nodes' = a.nodes
    /\ layersSelected' = a.layersSelected
    /\ layersHighlighted' = a.layersHighlighted
    /\ tasks' = [ tasks EXCEPT !.nextTick = nextTick, !.timeouts = a.timeouts,
                               !.calls = a.calls ]
    /\ UNCHANGED UpdateRest

\* The next tick runs the callback queued first
NextTick ==
    /\ tasks.nextTick # << >>
    /\ Ran(NextTickCallback(ApiState, Head(tasks.nextTick)), Tail(tasks.nextTick))

\* The timer set first expires
Timeout ==
    /\ tasks.timeouts # << >>
    /\ Ran(TimeoutCallback([ ApiState EXCEPT !.timeouts = Tail(@) ], Head(tasks.timeouts)),
           tasks.nextTick)

\* The hover step of Select highlights other nodes
HoverHighlights(ids) ==
    /\ ids # layersHighlighted
    /\ layersHighlighted' = ids
    /\ UNCHANGED << nodes, layersSelected, tasks >>
    /\ UNCHANGED UpdateRest

UpdateNext ==
    \/ \E list \in NodeLists : updateAndSelectNodes(list)
    \/ NextTick
    \/ Timeout
    \/ \E ids \in SUBSET { "A" } : HoverHighlights(ids)

\* The tick and the timers come: a queued callback runs
UpdateSpec ==
    UpdateInit /\ [][UpdateNext]_vars /\ WF_vars(NextTick) /\ WF_vars(Timeout)

(***************************************************************************)
(* Properties                                                              *)
(***************************************************************************)
\* The last frame was a pointer-up frame
AfterUp == press.phase = "up"

\* The pointer is less than DRAG_THRESHOLD pixels from the pointer-down point
ReleasedNear ==
    ~distanceAtLeast(pointerViewport[1], pointerViewport[2],
                     cameraControl.pointerDownViewportX,
                     cameraControl.pointerDownViewportY, DRAG_THRESHOLD)

\* C1: after a press that entered MOVE and was released less than 3 pixels
\* from the pointer-down point, every node has the translation, rotation,
\* scale and size it had just before the pointer-down, whatever the pointer
\* did in between.
C1_ClickKeepsNodes ==
    (AfterUp /\ press.modeAfterDown = MOVE /\ ReleasedNear) => nodes = press.nodes

\* A click: the press is released less than DRAG_THRESHOLD pixels from the
\* pointer-down point, over the node it went down on
ClickOnNode ==
    /\ AfterUp
    /\ ReleasedNear
    /\ press.target # NoEntity
    /\ getTopmostEntity(press.nodes, pointerViewport[1], pointerViewport[2]) = press.target

Toggled(selecteds, id) ==
    IF id \in selecteds THEN selecteds \ { id } ELSE selecteds \cup { id }

\* C2: a shift-click on a non-UI node toggles exactly that node: the
\* selection after the click is the selection before the pointer-down with
\* the clicked node's membership flipped once and every other node's
\* membership unchanged.
C2_ShiftClickToggles ==
    (ClickOnNode /\ press.shiftKey) =>
        layersSelected = Toggled(press.layersSelected, press.target)

\* C3: a plain click on an unselected non-UI node leaves the selection equal
\* to exactly that node, whatever the selection and the mode were before.
C3_PlainClickSelects ==
    (ClickOnNode /\ ~press.shiftKey /\ press.target \notin press.layersSelected) =>
        layersSelected = { press.target }

\* A brush gesture is under way and its marquee is shown
BrushShown ==
    /\ pressed
    /\ Len(selections) > 0
    /\ selections[1].mode = BRUSH
    /\ selections[1].brushContainer.visibility = "visible"

\* The non-UI direct children of the camera that intersect the rectangle
\* spanned by the pointer-down point and the pointer
MarqueeHits ==
    BrushHits(nodes,
              viewport2Canvas(Min(cameraControl.pointerDownViewportX, pointerViewport[1])),
              viewport2Canvas(Min(cameraControl.pointerDownViewportY, pointerViewport[2])),
              viewport2Canvas(Max(cameraControl.pointerDownViewportX, pointerViewport[1])),
              viewport2Canvas(Max(cameraControl.pointerDownViewportY, pointerViewport[2])))

\* C4: while a brush marquee is shown, after every drag frame and after the
\* pointer-up that ends the gesture, the selection and the highlight set are
\* both exactly the non-UI direct children of the camera that intersect the
\* rectangle spanned by the pointer-down point and the current pointer; no
\* UI node and no nested child is selected.
C4_BrushSelectsMarquee ==
    (BrushShown \/ (AfterUp /\ press.upBrush # << >>)) =>
        /\ layersSelected = MarqueeHits
        /\ layersHighlighted = MarqueeHits
        /\ \A id \in layersSelected : ~isUI[id] /\ parentOf[id] = CameraId

\* A MOVE drag frame that applies a move: handleSelectedMoving is the only
\* writer of node geometry while the mode is MOVE
MoveApplied ==
    /\ pressed
    /\ ModeBefore = MOVE
    /\ nodes' # nodes

MovedBy(id, dx, dy) ==
    nodes'[id] = [ nodes[id] EXCEPT !.x = @ + dx, !.y = @ + dy ]

\* C5: every MOVE drag frame that applies a move adds one and the same
\* offset to the translation of every selected node, and changes no other
\* node and no other attribute.
C5_SameOffset ==
    [][ MoveApplied =>
          /\ \E a \in layersSelected :
                \A id \in layersSelected :
                    MovedBy(id, nodes'[a].x - nodes[a].x, nodes'[a].y - nodes[a].y)
          /\ \A id \in NodeIds \ layersSelected : nodes'[id] = nodes[id] ]_vars

\* A move frame has moved two selected nodes
C5_TwoNodesMoved ==
    /\ pressed
    /\ ModeBefore = MOVE
    /\ transformable.status = "MOVING"
    /\ layersSelected = { "A", "B" }
    /\ nodes["A"].x # press.nodes["A"].x
    /\ nodes["B"].x # press.nodes["B"].x

\* The pointer-up committed a move: the press ended in MOVE, DRAG_THRESHOLD
\* pixels or more from the pointer-down point
MoveCommitted == AfterUp /\ press.upMode = MOVE /\ ~ReleasedNear

\* C6: with grid snap enabled at pitch GridSize, the total offset a
\* committed move has added to each selected node is an integer multiple of
\* GridSize on both axes.
C6_GridMultiple ==
    (MoveCommitted /\ snapToPixelGridEnabled) =>
        \A id \in layersSelected :
            /\ (nodes[id].x - press.nodes[id].x) % GridSize = 0
            /\ (nodes[id].y - press.nodes[id].y) % GridSize = 0

\* The record() calls a press owes by the gesture its pointer-up ends: one
\* for a committed move, a resize or a rotation, none for a click-select
\* (in MOVE below the threshold, or resolved at pointer-down in SELECT) or a
\* brush
RecordsOwed ==
    IF MoveCommitted \/ (AfterUp /\ press.upMode \in { RESIZE, ROTATE }) THEN { 1 }
    ELSE IF AfterUp /\ press.upMode \in { MOVE, SELECT, BRUSH, READY_TO_BRUSH } THEN { 0 }
    ELSE { 0, 1 }

\* C10: record() is called in the pointer-up step only, never in a
\* pointer-down, hover, drag or key step; the pointer-up that completes a
\* MOVE gesture at or beyond the drag threshold, a RESIZE gesture or a ROTATE
\* gesture has made the only record() call of the press, and the pointer-up
\* of a click-select or of a brush gesture has made none.
C10_OneRecordPerGesture ==
    /\ \A i \in 1 .. Len(press.log) : press.log[i] = "pointer-up"
    /\ AfterUp => Len(press.log) \in RecordsOwed

\* A committed move has been recorded
C10_MoveRecorded ==
    /\ MoveCommitted
    /\ press.dragged
    /\ nodes # press.nodes
    /\ press.log = << "pointer-up" >>

\* Where the anchors of a width x height box are, in the frame of its mask
AnchorPoint(anchorName, width, height) ==
    CASE anchorName = "TOP_LEFT" -> << 0, 0 >>
      [] anchorName = "TOP_RIGHT" -> << width, 0 >>
      [] anchorName = "BOTTOM_LEFT" -> << 0, height >>
      [] anchorName = "BOTTOM_RIGHT" -> << width, height >>

OppositeCorner(anchorName) ==
    CASE anchorName = "TOP_LEFT" -> "BOTTOM_RIGHT"
      [] anchorName = "TOP_RIGHT" -> "BOTTOM_LEFT"
      [] anchorName = "BOTTOM_LEFT" -> "TOP_RIGHT"
      [] anchorName = "BOTTOM_RIGHT" -> "TOP_LEFT"

\* The canvas positions of the four corners of an OBB
CornersOf(obb) ==
    { transformMat3(AnchorPoint(a, obb.width, obb.height)[1],
                    AnchorPoint(a, obb.width, obb.height)[2], MaskOf(obb)) :
          a \in CornerAnchors }

\* The canvas position, at the gesture start, of the corner opposite the
\* dragged anchor
FixedCorner ==
    transformMat3(AnchorPoint(OppositeCorner(calc.anchorName),
                              calc.obb.width, calc.obb.height)[1],
                  AnchorPoint(OppositeCorner(calc.anchorName),
                              calc.obb.width, calc.obb.height)[2],
                  MaskOf(calc.obb))

\* A drag frame of a resize gesture that was not skipped
ResizeApplied == calc.op = "resized" /\ ~calc.box.skip

\* The example: the bottom-right anchor of a 100 x 100 box at (0, 0)
\* dragged to (150, 150)
ResizeExample ==
    /\ calc.op = "resized"
    /\ calc.anchorName = "BOTTOM_RIGHT"
    /\ calc.obb = [ x |-> 0, y |-> 0, width |-> 100, height |-> 100,
                    rotation |-> 0, scaleX |-> 1, scaleY |-> 1 ]
    /\ calc.x = 150
    /\ calc.y = 150

\* C7: in every drag frame of a corner-anchor resize that is not skipped,
\* the corner diagonally opposite the dragged anchor is a corner of the new
\* OBB, at the canvas position it had at the gesture start, wherever the
\* cursor is; the bottom-right anchor of a 100 x 100 box at (0, 0) dragged
\* to (150, 150) gives a 150 x 150 box at (0, 0).
C7_OppositeCornerFixed ==
    /\ (ResizeApplied /\ calc.anchorName \in CornerAnchors) =>
           FixedCorner \in CornersOf(calc.newObb)
    /\ ResizeExample =>
           calc.newObb = [ x |-> 0, y |-> 0, width |-> 150, height |-> 150,
                           rotation |-> 0, scaleX |-> 1, scaleY |-> 1 ]

\* The cursor of a corner resize has crossed to the other side of the fixed
\* corner of a rotated box, on both axes
C7_CursorCrossed ==
    /\ ResizeApplied
    /\ calc.anchorName = "BOTTOM_RIGHT"
    /\ calc.obb.rotation = 1
    /\ calc.obb.width # calc.obb.height
    /\ calc.x < 0
    /\ calc.y < 0
    /\ calc.box.minX < 0

\* The edge opposite the dragged anchor, as a coordinate in the frame of
\* the saved mask
OppositeEdge ==
    CASE calc.anchorName = "MIDDLE_RIGHT" -> 0
      [] calc.anchorName = "MIDDLE_LEFT" -> calc.obb.width
      [] calc.anchorName = "BOTTOM_CENTER" -> 0
      [] OTHER -> calc.obb.height

Horizontal == calc.anchorName \in { "MIDDLE_LEFT", "MIDDLE_RIGHT" }

\* The fixed-point steps hold the new box exactly: the dimension that
\* follows the dragged one is a whole number of steps, and so is the
\* margin that centres it
ExactInSteps ==
    IF Horizontal
    THEN /\ (Abs(calc.x - OppositeEdge) * calc.obb.height) % calc.obb.width = 0
         /\ (calc.obb.height - calc.box.height) % 2 = 0
    ELSE /\ (Abs(calc.y - OppositeEdge) * calc.obb.width) % calc.obb.height = 0
         /\ (calc.obb.width - calc.box.width) % 2 = 0

\* The canvas position, at the gesture start, of the middle of the edge
\* opposite the dragged anchor
OppositeEdgeMiddle ==
    IF Horizontal
    THEN transformMat3(OppositeEdge, calc.obb.height \div 2, MaskOf(calc.obb))
    ELSE transformMat3(calc.obb.width \div 2, OppositeEdge, MaskOf(calc.obb))

\* The canvas positions of the middles of the two edges of an OBB that are
\* across the dragged axis
EdgeMiddlesOf(obb) ==
    IF Horizontal
    THEN { transformMat3(ex, obb.height \div 2, MaskOf(obb)) : ex \in { 0, obb.width } }
    ELSE { transformMat3(obb.width \div 2, ey, MaskOf(obb)) : ey \in { 0, obb.height } }

\* C8: in every drag frame of an edge-anchor resize that is not skipped, the
\* new OBB keeps the aspect ratio of the saved OBB (new width x saved height
\* = new height x saved width), the edge opposite the dragged anchor stays
\* an edge of the box where it was at the gesture start, and the box stays
\* centred on the saved centre along the perpendicular axis: on the canvas,
\* the middle of the opposite edge is where it was.
C8_EdgeKeepsAspect ==
    (ResizeApplied /\ calc.anchorName \in EdgeAnchors /\ ExactInSteps) =>
        /\ calc.newObb.width * calc.obb.height = calc.newObb.height * calc.obb.width
        /\ IF Horizontal
           THEN /\ OppositeEdge \in { calc.box.minX, calc.box.minX + calc.box.width }
                /\ 2 * calc.box.minY + calc.box.height = calc.obb.height
           ELSE /\ OppositeEdge \in { calc.box.minY, calc.box.minY + calc.box.height }
                /\ 2 * calc.box.minX + calc.box.width = calc.obb.width
        /\ OppositeEdgeMiddle \in EdgeMiddlesOf(calc.newObb)

\* The right edge of a rotated 100 x 200 box has been dragged past its left
\* edge, and the box has grown beyond the saved height
C8_EdgeCrossed ==
    /\ ResizeApplied
    /\ calc.anchorName = "MIDDLE_RIGHT"
    /\ ExactInSteps
    /\ calc.obb.width = 100
    /\ calc.obb.height = 200
    /\ calc.obb.rotation = 1
    /\ calc.x < 0
    /\ calc.box.minY < 0

\* fitSelected has been called with the saved OBB
FitApplied == calc.op \in { "fitted", "fitted again" }

\* The snapshot of a node with each size below Epsilon raised to Epsilon
RaisedToEpsilon(n) ==
    [ n EXCEPT !.width = Max(@, Epsilon), !.height = Max(@, Epsilon) ]

\* The delta transform is the identity, a second call has written what the
\* first did, and the saved OBB is as it was
SameAgain ==
    /\ calc.delta = MatIdentity
    /\ calc.first = calc.written
    /\ calc.obb = calc.start

InPress == press.phase \in { "held", "up" }

IsDownStep(s) == s = "pointer-down"

IsUpStep(s) == s = "pointer-up"

\* C11 as claimed: the gesture snapshot is retaken exactly once per
\* manipulation gesture (move, resize, rotate), in the frame whose
\* pointer-down begins the gesture, and in no other frame.
C11_SnapshotOncePerGesture ==
    /\ \A i \in 1 .. Len(press.saves) : press.saves[i] = "pointer-down"
    /\ (InPress /\ press.modeAfterDown \in { MOVE, RESIZE, ROTATE }) =>
           Len(press.saves) = 1

\* C11, amended: the gesture snapshot is retaken by saveSelectedOBB in two
\* steps only: once in the pointer-down step of a press that finds
\* READY_TO_RESIZE or READY_TO_ROTATE (the frame that begins the resize or
\* rotate gesture), and once in every pointer-up step that commits a move, a
\* resize or a rotation, together with its record() call.  A move gesture
\* takes no snapshot at its pointer-down, and no hover, drag or key step
\* retakes it.
C11_SnapshotAtStartAndCommit ==
    /\ \A i \in 1 .. Len(press.saves) : press.saves[i] \in { "pointer-down", "pointer-up" }
    /\ InPress =>
           Len(SelectSeq(press.saves, IsDownStep)) =
               IF press.downMode \in { READY_TO_RESIZE, READY_TO_ROTATE } THEN 1 ELSE 0
    /\ SelectSeq(press.saves, IsUpStep) = press.log

\* A resize gesture has changed a node and has been committed: the snapshot
\* was taken at its pointer-down and again at its pointer-up
C11_ResizeSavedTwice ==
    /\ AfterUp
    /\ press.downMode = READY_TO_RESIZE
    /\ press.upMode = RESIZE
    /\ nodes # press.nodes
    /\ press.saves = << "pointer-down", "pointer-up" >>

\* The gesture snapshot of a selection context
Snapshot(selection) ==
    << selection.obb, selection.sin, selection.cos, selection.nodes,
       selection.savedMaskMatrix, selection.savedMaskMatrixInv >>

\* A frame between the pointer-down and the pointer-up of a RESIZE or ROTATE
\* gesture: it runs the hover, drag and key steps only
MidGesture ==
    /\ pressed
    /\ pressed'
    /\ ModeBefore \in { RESIZE, ROTATE }
    /\ Len(selections') > 0

\* The nodes a resize frame leaves when it starts from the nodes of the
\* gesture start instead of the nodes the earlier frames have left
ResizedFromStart(p) ==
    handleSelectedResizing([ World EXCEPT !.nodes = press.nodes ],
                           Gridded(viewport2Canvas(p[1])),
                           Gridded(viewport2Canvas(p[2]))).nodes

\* C12: between the pointer-down that enters RESIZE or ROTATE and the
\* matching pointer-up, no frame changes the saved OBB, the saved cos and
\* sin, the node snapshots, the saved mask matrix or its inverse; every
\* resize frame is computed from that snapshot and the cursor alone: it
\* leaves the selected nodes as it would leave them as the first frame of
\* the gesture, and the other nodes as they are.
C12_SnapshotFrozen ==
    [][ MidGesture =>
          /\ Snapshot(selections'[1]) = Snapshot(selections[1])
          /\ (ModeBefore = RESIZE /\ pointerViewport' # pointerViewport) =>
                 \A id \in NodeIds :
                     nodes'[id] = IF id \in layersSelected
                                  THEN ResizedFromStart(pointerViewport')[id]
                                  ELSE nodes[id] ]_vars

\* A drag frame of a resize gesture has taken the bottom-right corner of
\* node A to (18, 18), and the snapshot is still the box the node had at
\* the pointer-down
C12_ResizedFromSnapshot ==
    /\ pressed
    /\ ModeBefore = RESIZE
    /\ layersSelected = { "A" }
    /\ pointerViewport = << 18, 18 >>
    /\ nodes["A"].width = 250
    /\ selections[1].obb = getOBB(press.nodes, { "A" })

\* A step that is one call of execute() (not finalize(), not a tool switch)
IsFrame ==
    /\ frames' = frames + 1
    /\ ~(Len(selections) > 0 /\ Len(selections') = 0)

\* C13: in any frame where the tool is neither select nor vector-network
\* nor eraser, the selection and the highlight set are empty after the
\* frame and the state machine is skipped: no selection context is created,
\* an existing one keeps its mode and every other field, and no node and no
\* transformer state changes, whatever input the frame carries.
C13_BypassSkips ==
    [][ (IsFrame /\ penbarSelected \notin { "SELECT", "VECTOR_NETWORK", "ERASER" }) =>
          /\ layersSelected' = {}
          /\ layersHighlighted' = {}
          /\ selections' = selections
          /\ svgLayer' = svgLayer
          /\ nodes' = nodes
          /\ transformable' = transformable ]_vars

\* A frame under the hand tool has carried a drag of a MOVE gesture: the
\* selection is cleared, node A is where it was and the mode is still MOVE
C13_HandFrameInGesture ==
    /\ penbarSelected = "HAND"
    /\ pressed
    /\ frames = 3
    /\ ModeBefore = MOVE
    /\ press.layersSelected = { "A" }
    /\ layersSelected = {}
    /\ pointerViewport = << 16, 16 >>
    /\ cameraControl.pointerDownViewportX = 13
    /\ nodes = press.nodes

\* The state machine runs in the frame
Running == penbarSelected \in { "SELECT", "VECTOR_NETWORK" }

\* A frame that carries a pointer-down and a pointer-up
TapFrame == IsFrame /\ Running /\ ~pressed /\ press'.phase = "up"

\* A frame that carries Escape and a pointer-up
EscapeUpFrame ==
    IsFrame /\ Running /\ pressed /\ press'.phase = "up" /\ press'.upKey = "Escape"

ModeAfter == IF Len(selections') > 0 THEN selections'[1].mode ELSE IDLE

\* The pointer of the frame is less than DRAG_THRESHOLD pixels from the
\* pointer-down point the selection context holds
UpNear ==
    ~distanceAtLeast(pointerViewport'[1], pointerViewport'[2],
                     selections[1].pointerDownViewportX,
                     selections[1].pointerDownViewportY, DRAG_THRESHOLD)

\* What the pointer-up step of a click selects when it runs on an empty
\* selection: the node under the pointer, unless the pointer-down step has
\* handled the selection
ClickedAfterEscape(toSelect) ==
    IF toSelect # NoEntity /\ ~selections[1].pointerDownSelectionHandled
    THEN { toSelect } ELSE {}

\* C14: the steps of a frame run in the order pointer-down, hover, drag,
\* key, pointer-up, each on the mode and selection the earlier ones left.
\* A frame with a pointer-down and a pointer-up first starts and then ends
\* the gesture: it leaves no gesture mode, from READY_TO_RESIZE or
\* READY_TO_ROTATE it takes the snapshot at pointer-down and again at
\* pointer-up, records once and is back in the mode it found, and from IDLE
\* the selection is cleared.  In a frame with Escape and a pointer-up the
\* Escape is applied first: the pointer-up of a resize, a rotation or a
\* committed move commits with the selection already empty (the snapshot is
\* the empty box), and the pointer-up of a click selects the node under the
\* pointer after the Escape has cleared the selection.
C14_StepOrder ==
    [][ /\ TapFrame =>
             /\ ModeAfter \notin { MOVE, RESIZE, ROTATE, BRUSH }
             /\ ModeBefore \in { READY_TO_RESIZE, READY_TO_ROTATE } =>
                    /\ press'.saves = << "pointer-down", "pointer-up" >>
                    /\ press'.log = << "pointer-up" >>
                    /\ ModeAfter = ModeBefore
             /\ ModeBefore = READY_TO_MOVE => ModeAfter = READY_TO_MOVE
             /\ ModeBefore = IDLE => layersSelected' = {}
        /\ EscapeUpFrame =>
             /\ ModeBefore = BRUSH => (ModeAfter = IDLE /\ layersSelected' = {})
             /\ (ModeBefore \in { RESIZE, ROTATE } \/ (ModeBefore = MOVE /\ ~UpNear)) =>
                    /\ layersSelected' = {}
                    /\ press'.log = press.log \o << "pointer-up" >>
                    /\ selections'[1].obb = getOBB(nodes', {})
             /\ (ModeBefore = MOVE /\ UpNear) =>
                    /\ layersSelected' =
                           ClickedAfterEscape(getTopmostEntity(nodes', pointerViewport'[1],
                                                               pointerViewport'[2]))
                    /\ press'.log = press.log ]_vars

\* A frame with a pointer-down and a pointer-up on a resize handle of the
\* selected node A has started and ended a resize gesture
C14_TapOnHandle ==
    /\ AfterUp
    /\ press.downMode = READY_TO_RESIZE
    /\ press.upMode = READY_TO_RESIZE
    /\ press.layersSelected = { "A" }
    /\ press.saves = << "pointer-down", "pointer-up" >>
    /\ press.log = << "pointer-up" >>
    /\ ModeBefore = READY_TO_RESIZE

\* A frame that runs the state machine and finds no selection context
CreatingFrame == IsFrame /\ Running /\ Len(selections) = 0

\* The saveSelectedOBB() calls of the frame
SavesOfFrame ==
    SubSeq(press'.saves, Len(Held.saves) + 1, Len(press'.saves))

\* C15: there is at most one selection context, and the two overlay
\* containers are attached exactly while it exists; a frame that runs the
\* state machine leaves a context and a bypassed frame creates none; a
\* frame that finds no context, at the start or after finalize(), runs on a
\* new context in mode IDLE with no saved snapshot: it leaves no gesture
\* mode that a pointer-down from IDLE cannot reach, takes no snapshot in its
\* pointer-down step, and unless its pointer-up step takes one the context
\* it leaves holds the empty snapshot of a new context.
C15_ContextLifecycle ==
    /\ [](/\ Len(selections) <= 1
          /\ svgLayer = IF Len(selections) = 0 THEN { } ELSE Overlays)
    /\ [][ /\ (IsFrame /\ Running) => Len(selections') = 1
           /\ (IsFrame /\ ~Running) => selections' = selections
           /\ CreatingFrame =>
                 /\ ModeAfter \notin { SELECT, MOVE, RESIZE, ROTATE }
                 /\ \A i \in 1 .. Len(SavesOfFrame) : SavesOfFrame[i] = "pointer-up"
                 /\ SavesOfFrame = << >> =>
                        Snapshot(selections'[1]) = Snapshot(NewSelection(nodes)) ]_vars

\* After a resize gesture and finalize(), a frame has created a new context:
\* it holds no saved mask matrix, and the hover step has found the resize
\* handle from IDLE
C15_FreshAfterFinalize ==
    /\ transformable.status = "RESIZED"
    /\ Len(selections) = 1
    /\ selections[1].savedMaskMatrix = << >>
    /\ selections[1].obb = getOBB(nodes, {})
    /\ selections[1].mode = READY_TO_RESIZE
    /\ svgLayer = Overlays

\* The snapshot saveSelectedOBB takes of the selection of w
SnapshotOf(w, obb) ==
    << obb,
       SavedSin(obb, Hypotenuse2(obb)),
       SavedCos(obb, Hypotenuse2(obb)),
       [ id \in NodeIds |-> getAbsoluteTransformAndSize(w.nodes, id) ],
       << MaskOf(obb) >>,
       << MatInvert(MaskOf(obb)) >> >>

\* The pointer is over the interior of the transform box
OverInterior(w, in) ==
    hitTest(w.nodes, w.layersSelected, w.transformable.visible, in.x, in.y).anchor = "INSIDE"

\* The mode the pointer-down step switches to
DownTarget(w, in) ==
    CASE w.selection.mode = IDLE -> READY_TO_BRUSH
      [] w.selection.mode = READY_TO_SELECT ->
             IF w.layersSelected # {} /\ OverInterior(w, in) THEN MOVE ELSE SELECT
      [] w.selection.mode = READY_TO_MOVE -> MOVE
      [] w.selection.mode = READY_TO_RESIZE -> RESIZE
      [] w.selection.mode = READY_TO_ROTATE -> ROTATE
      [] OTHER -> w.selection.mode

\* r is what the mode switch of the pointer-down step leaves of w
DownMapped(w, in, r) ==
    /\ r.selection.mode = DownTarget(w, in)
    /\ r.layersSelected = IF w.selection.mode = IDLE THEN {} ELSE w.layersSelected
    /\ IF w.selection.mode \in { READY_TO_RESIZE, READY_TO_ROTATE }
       THEN /\ Snapshot(r.selection) = SnapshotOf(w, getOBB(w.nodes, w.layersSelected))
            /\ r.saveLog = << "pointer-down" >>
       ELSE /\ Snapshot(r.selection) = Snapshot(w.selection)
            /\ r.saveLog = << >>
    /\ r.nodes = w.nodes
    /\ r.recordLog = << >>

DownMappedAt(w, in) == DownMapped(w, in, DownMode(DownStart(w, in), in))

\* The inputs of a pointer-down frame: none while the pointer is down
DownInputs ==
    IF pressed THEN {}
    ELSE { Input(TRUE, FALSE, p, shiftKey, "", << >>) : p \in Points, shiftKey \in BOOLEAN }

\* C16: the mode switch of the pointer-down step (before the SELECT
\* resolution) maps IDLE to READY_TO_BRUSH with the selection cleared,
\* READY_TO_SELECT to MOVE when a selection exists and the pointer is over
\* the transform-box interior and to SELECT otherwise, READY_TO_MOVE to
\* MOVE, READY_TO_RESIZE to RESIZE and READY_TO_ROTATE to ROTATE, each of
\* the last two with the snapshot taken in the same step, and leaves every
\* other mode, and in every other case the snapshot, unchanged.
C16_PointerDownMapping ==
    \A in \in DownInputs : DownMappedAt(AtStep(World, "pointer-down"), in)

\* A pointer-down on a resize handle has entered RESIZE with the snapshot
\* of the selected node taken
C16_DownOnHandle ==
    /\ pressed
    /\ press.downMode = READY_TO_RESIZE
    /\ press.modeAfterDown = RESIZE
    /\ press.layersSelected = { "A" }
    /\ press.saves = << "pointer-down" >>
    /\ Snapshot(selections[1]) = SnapshotOf([ nodes |-> press.nodes ],
                                            getOBB(press.nodes, press.layersSelected))

\* r is what the SELECT resolution leaves of mid, the world after the mode
\* switch of the pointer-down step
SelectResolved(mid, r) ==
    mid.selection.mode = SELECT =>
        /\ r.selection.mode = IF r.layersSelected # {} THEN MOVE ELSE SELECT
        /\ r.nodes = mid.nodes
        /\ r.recordLog = << >>

SelectResolvedFrom(mid, in) == SelectResolved(mid, DownSelect(mid, in))

\* C17: when the pointer-down step resolves SELECT, the mode at the end
\* of the step is MOVE if and only if the resulting selection is non-empty
\* and is SELECT only when the resulting selection is empty.
C17_SelectResolvesToMove ==
    \A in \in DownInputs :
        SelectResolvedFrom(DownMode(DownStart(AtStep(World, "pointer-down"), in), in), in)

\* A press on an unselected node with nothing selected has selected it,
\* gone to MOVE in the pointer-down frame, and a drag of the same press
\* has moved the node
C17_PressSelectsAndDrags ==
    /\ pressed
    /\ press.downMode = READY_TO_SELECT
    /\ press.layersSelected = {}
    /\ press.target = "B"
    /\ press.modeAfterDown = MOVE
    /\ layersSelected = { "B" }
    /\ nodes["B"].x # press.nodes["B"].x

\* The pointer positions a hover is checked at: the points of the input
\* stream, a point over the child N inside A, N's bottom-right corner, and
\* a point of the empty canvas between A and B
HoverPoints == Points \cup { << 10, 10 >>, << 11, 11 >>, << 20, 12 >> }

\* The inputs of a frame whose hover step may run, no points in flight:
\* with no pointer down a move or a pointer-down, with the pointer down
\* the pointer-up of a deleted pointer
HoverInputs ==
    IF pressed
    THEN { Input(FALSE, TRUE, p, FALSE, "", << >>) : p \in HoverPoints }
    ELSE { Input(down, FALSE, p, shiftKey, "", << >>) :
               down \in BOOLEAN, p \in HoverPoints, shiftKey \in BOOLEAN }

\* The hover step recomputes: the pointer moved or a trigger arrived
HoverRecomputes(w, in) ==
    /\ Len(in.inputPoints) = 0
    /\ \/ w.selection.pointerMoveViewportX # in.x
       \/ w.selection.pointerMoveViewportY # in.y
       \/ in.pointerDownTrigger
       \/ in.pointerUpTrigger

\* The hover step consults the anchors of the transform box
AnchorsTested(w, in) ==
    /\ HoverRecomputes(w, in)
    /\ w.layersSelected # {}
    /\ w.selection.mode \notin ActiveModes

HitAt(w, in) ==
    hitTest(w.nodes, w.layersSelected, w.transformable.visible, in.x, in.y)

\* r is what the hover step leaves of w when the anchor hit is in a
\* rotate or a resize zone
HandleHovered(w, in, hit, r) ==
    (AnchorsTested(w, in) /\ (IsRotateCursor(hit.cursor) \/ IsResizeCursor(hit.cursor))) =>
        /\ r.selection.mode = IF IsRotateCursor(hit.cursor)
                              THEN READY_TO_ROTATE ELSE READY_TO_RESIZE
        /\ r.selection.resizingAnchorName = hit.anchor
        /\ r.selection.prevHoverEntity = NoEntity
        /\ r.layersHighlighted =
              IF \/ w.selection.prevHoverEntity # NoEntity
                 \/ in.pointerDownTrigger
                 \/ in.pointerUpTrigger
              THEN r.layersSelected
              ELSE w.layersHighlighted
        /\ r.layersSelected = w.layersSelected
        /\ r.nodes = w.nodes

HandleHoveredFrom(w, in) == HandleHovered(w, in, HitAt(w, in), HoverStep(w, in))

\* C18: in a hover recompute with a non-empty selection and a mode outside
\* BRUSH/MOVE/RESIZE/ROTATE, an anchor hit in a rotate zone gives
\* READY_TO_ROTATE and one in a resize zone READY_TO_RESIZE, the hit anchor
\* becomes the active resize anchor and no hover target is highlighted
\* (the hover target is none; the highlight list becomes the selection if
\* there was a hover target or a trigger fired, and is not touched
\* otherwise), whichever scene entity lies under the cursor.
C18_HandleHoverWins ==
    [](\A in \in HoverInputs :
           HandleHoveredFrom(AtStep(PointerDownStep(World, in), "hover"), in))

\* The pointer rests on the bottom-right handle of the selected node A,
\* with A itself under the cursor, and the mode is READY_TO_RESIZE
C18_HoverOnHandleOverNode ==
    /\ ~pressed
    /\ layersSelected = { "A" }
    /\ pointerViewport = << 16, 16 >>
    /\ getTopmostEntity(nodes, 16, 16) = "A"
    /\ ModeBefore = READY_TO_RESIZE
    /\ selections[1].resizingAnchorName = "BOTTOM_RIGHT"
    /\ selections[1].prevHoverEntity = NoEntity
    /\ layersHighlighted = { "A" }

\* The entity under the cursor is a hoverable target distinct from the
\* selection
DistinctTarget(w, top) == top # NoEntity /\ top \notin w.layersSelected

\* The hover step consults the anchors and the cursor is over the interior
InteriorTested(w, in, hit) == AnchorsTested(w, in) /\ hit.anchor = "INSIDE"

InteriorHoverAsStated(w, in, hit, top, r) ==
    InteriorTested(w, in, hit) =>
        r.selection.mode = IF DistinctTarget(w, top) /\ ~in.shiftKey
                           THEN READY_TO_MOVE ELSE READY_TO_SELECT

InteriorHoverAsStatedFrom(w, in) ==
    InteriorHoverAsStated(w, in, HitAt(w, in),
                          getTopmostEntity(w.nodes, in.x, in.y), HoverStep(w, in))

InteriorHover(w, in, hit, top, r) ==
    InteriorTested(w, in, hit) =>
        r.selection.mode = IF ~DistinctTarget(w, top) /\ ~in.shiftKey
                           THEN READY_TO_MOVE ELSE READY_TO_SELECT

InteriorHoverFrom(w, in) ==
    InteriorHover(w, in, HitAt(w, in),
                  getTopmostEntity(w.nodes, in.x, in.y), HoverStep(w, in))

\* C19 as stated: in a hover recompute (non-empty selection, mode outside
\* BRUSH/MOVE/RESIZE/ROTATE) with the cursor over the transform-box
\* interior, a distinct hoverable target with no shift held gives
\* READY_TO_MOVE, and shift held or no distinct target gives READY_TO_SELECT.
C19_InteriorHoverAsStated ==
    \A in \in HoverInputs :
        InteriorHoverAsStatedFrom(AtStep(PointerDownStep(World, in), "hover"), in)

\* C19 amended: in such a hover recompute, no distinct hoverable target
\* and no shift held gives READY_TO_MOVE, and shift held or a distinct
\* target gives READY_TO_SELECT.
C19_InteriorHover ==
    [](\A in \in HoverInputs :
           InteriorHoverFrom(AtStep(PointerDownStep(World, in), "hover"), in))

\* The pointer rests, without shift, inside the transform box of the
\* selected node A, over A itself, and the mode is READY_TO_MOVE
C19_HoverOwnNode ==
    /\ ~pressed
    /\ layersSelected = { "A" }
    /\ pointerViewport = << 13, 13 >>
    /\ getTopmostEntity(nodes, 13, 13) = "A"
    /\ hitTest(nodes, layersSelected, transformable.visible, 13, 13).anchor = "INSIDE"
    /\ ModeBefore = READY_TO_MOVE
    /\ selections[1].resizingAnchorName = "INSIDE"

\* The hover step recomputes outside the active modes and finds no anchor
\* under the cursor (no selection, no visible transform box, or a cursor
\* off the box and its handles)
NoAnchorTested(w, in, hit) ==
    /\ HoverRecomputes(w, in)
    /\ w.selection.mode \notin ActiveModes
    /\ hit.anchor = "NONE"

NoAnchorAsStated(w, in, hit, r) ==
    NoAnchorTested(w, in, hit) => r.selection.mode = IDLE

NoAnchorAsStatedFrom(w, in) == NoAnchorAsStated(w, in, HitAt(w, in), HoverStep(w, in))

NoAnchor(w, in, hit, top, r) ==
    NoAnchorTested(w, in, hit) =>
        r.selection.mode = IF top # NoEntity THEN READY_TO_SELECT ELSE IDLE

NoAnchorFrom(w, in) ==
    NoAnchor(w, in, HitAt(w, in), getTopmostEntity(w.nodes, in.x, in.y), HoverStep(w, in))

\* C20 as stated: in a hover recompute with a mode outside
\* BRUSH/MOVE/RESIZE/ROTATE, when the anchor hit test finds no anchor under
\* the cursor the mode becomes IDLE.
C20_NoAnchorIdleAsStated ==
    \A in \in HoverInputs :
        NoAnchorAsStatedFrom(AtStep(PointerDownStep(World, in), "hover"), in)

\* C20 amended: in such a hover recompute with no anchor under the cursor
\* the mode becomes READY_TO_SELECT when a non-UI entity lies under the
\* cursor and IDLE when none does.
C20_NoAnchorByEntity ==
    [](\A in \in HoverInputs :
           NoAnchorFrom(AtStep(PointerDownStep(World, in), "hover"), in))

\* With A selected the pointer rests over B, off A's transform box, and
\* the mode is READY_TO_SELECT
C20_HoverOtherNode ==
    /\ ~pressed
    /\ layersSelected = { "A" }
    /\ pointerViewport = << 30, 14 >>
    /\ hitTest(nodes, layersSelected, transformable.visible, 30, 14).anchor = "NONE"
    /\ getTopmostEntity(nodes, 30, 14) = "B"
    /\ ModeBefore = READY_TO_SELECT

\* r is what the hover step leaves of w, a world in an active mode
ActiveHoverKeeps(w, r) ==
    w.selection.mode \in ActiveModes =>
        /\ r.selection.mode = w.selection.mode
        /\ r.selection.resizingAnchorName = w.selection.resizingAnchorName

ActiveHoverKeepsFrom(w, in) == ActiveHoverKeeps(w, HoverStep(w, in))

\* The active resize anchor before a frame
AnchorBefore ==
    IF Len(selections) > 0 THEN selections[1].resizingAnchorName ELSE "INSIDE"

\* A frame of a press that is in RESIZE, or the pointer-down frame that
\* enters RESIZE
ResizeGestureFrame ==
    /\ pressed'
    /\ Len(selections') > 0
    /\ \/ pressed /\ ModeBefore = RESIZE
       \/ ~pressed /\ ModeBefore = READY_TO_RESIZE /\ selections'[1].mode = RESIZE

\* C21: while the mode is BRUSH, MOVE, RESIZE or ROTATE the hover step
\* changes neither the mode nor the active resize anchor, whatever the
\* cursor position, the entity under the cursor and the anchor hit; the
\* anchor dragged in a RESIZE gesture is the one recorded before its
\* pointer-down, for the whole gesture.
C21_ActiveModesSkipHover ==
    /\ [](\A in \in HoverInputs :
             ActiveHoverKeepsFrom(AtStep(PointerDownStep(World, in), "hover"), in))
    /\ [][ ResizeGestureFrame =>
              /\ selections'[1].mode = RESIZE
              /\ selections'[1].resizingAnchorName = AnchorBefore ]_vars

\* A resize gesture begun on the bottom-right handle of A has the pointer
\* over A's interior and still drags the bottom-right anchor
C21_DragOverInterior ==
    /\ pressed
    /\ press.downMode = READY_TO_RESIZE
    /\ ModeBefore = RESIZE
    /\ layersSelected = { "A" }
    /\ pointerViewport = << 13, 13 >>
    /\ selections[1].resizingAnchorName = "BOTTOM_RIGHT"

\* The inputs of a frame with a pointer active: the pointer-down frame
\* that already sees the new point, and a move or a pointer-up frame of a
\* press
InFlightInputs ==
    { Input(~pressed, up, p, FALSE, "", << Point(pointerViewport) >>) :
          up \in IF pressed THEN BOOLEAN ELSE { FALSE }, p \in HoverPoints }

\* The inputs of a frame with no pointer active, no trigger, and the
\* cursor where the last hover recompute of w found it
RestingInputs(w) ==
    IF pressed THEN {}
    ELSE { Input(FALSE, FALSE,
                 << w.selection.pointerMoveViewportX, w.selection.pointerMoveViewportY >>,
                 shiftKey, "", << >>) : shiftKey \in BOOLEAN }

HoverSkips(w, in) == HoverStep(w, in) = w

\* A frame of a press other than its pointer-down and pointer-up frames
HeldFrame ==
    /\ pressed
    /\ pressed'
    /\ Len(selections) > 0
    /\ Len(selections') > 0

\* C22: the hover step changes nothing (mode, active resize anchor,
\* highlight set, cached hover target, cached pointer position) in a frame
\* where a pointer is active, and nothing in a frame where the cursor is
\* where the last hover recompute found it and no trigger fired.
C22_HoverSkipped ==
    /\ [](/\ \A in \in InFlightInputs :
                HoverSkips(AtStep(PointerDownStep(World, in), "hover"), in)
          /\ \A in \in RestingInputs(World) : HoverSkips(AtStep(World, "hover"), in))
    /\ [][ HeldFrame =>
              /\ selections'[1].pointerMoveViewportX = selections[1].pointerMoveViewportX
              /\ selections'[1].pointerMoveViewportY = selections[1].pointerMoveViewportY
              /\ selections'[1].prevHoverEntity = selections[1].prevHoverEntity ]_vars

\* A press landed on node A, away from the last hover position, in a
\* frame that already saw the new pointer: the hover cache still holds
\* the old position and the brush stays armed
C22_PressAwayFromHover ==
    /\ pressed
    /\ press.downMode = IDLE
    /\ ModeBefore = READY_TO_BRUSH
    /\ pointerViewport = << 13, 13 >>
    /\ getTopmostEntity(nodes, 13, 13) = "A"
    /\ selections[1].pointerMoveViewportX = 0
    /\ selections[1].pointerMoveViewportY = 0

\* The world the pointer-up step of a frame finds: the frame's earlier
\* steps have run
BeforeUp(w, in) ==
    KeyStep(AtStep(
        DragStep(AtStep(
            HoverStep(AtStep(PointerDownStep(w, in), "hover"), in),
            "drag"), in, in.inputPoints),
        "key"), in)

\* The inputs of a pointer-up frame: the released pointer still seen or
\* already deleted
UpInputs ==
    IF pressed
    THEN { Input(FALSE, TRUE, p, FALSE, "", points) :
               p \in Points, points \in { << >>, << Point(pointerViewport) >> } }
    ELSE {}

\* The mode the pointer-up step switches to
UpTarget(mode) ==
    CASE mode = BRUSH -> IDLE
      [] mode = MOVE -> READY_TO_MOVE
      [] mode \in { RESIZE, READY_TO_RESIZE } -> READY_TO_RESIZE
      [] mode = ROTATE -> READY_TO_ROTATE
      [] OTHER -> mode

\* The release is a click: less than DRAG_THRESHOLD from the press
ReleasedAsClick(w, in) ==
    ~distanceAtLeast(in.x, in.y, w.selection.pointerDownViewportX,
                     w.selection.pointerDownViewportY, DRAG_THRESHOLD)

\* The status a commit of the gesture in this mode leaves, "" for none
CommitStatus(w, in) ==
    CASE w.selection.mode = MOVE /\ ~ReleasedAsClick(w, in) -> "MOVED"
      [] w.selection.mode \in { RESIZE, READY_TO_RESIZE } -> "RESIZED"
      [] w.selection.mode = ROTATE -> "ROTATED"
      [] OTHER -> ""

\* The nodes the marquee of w selects
MarqueeOf(w) ==
    BrushHits(w.nodes,
              viewport2Canvas(w.selection.brushContainer.brush[1].x),
              viewport2Canvas(w.selection.brushContainer.brush[1].y),
              viewport2Canvas(w.selection.brushContainer.brush[1].x
                              + w.selection.brushContainer.brush[1].width),
              viewport2Canvas(w.selection.brushContainer.brush[1].y
                              + w.selection.brushContainer.brush[1].height))

\* r is what the pointer-up step leaves of w
UpMapped(w, in, r, status) ==
    /\ r.selection.mode = UpTarget(w.selection.mode)
    /\ r.nodes = w.nodes
    /\ IF status # ""
       THEN /\ r.recordLog = Append(w.recordLog, "pointer-up")
            /\ r.saveLog = Append(w.saveLog, "pointer-up")
            /\ r.transformable.status = status
            /\ r.selection.obb = getOBB(w.nodes, w.layersSelected)
            /\ r.layersSelected = w.layersSelected
       ELSE /\ r.recordLog = w.recordLog
            /\ r.saveLog = w.saveLog
            /\ r.transformable = w.transformable
            /\ Snapshot(r.selection) = Snapshot(w.selection)
    /\ w.selection.mode = BRUSH =>
           /\ r.selection.brushContainer.visibility = "hidden"
           /\ Len(w.selection.brushContainer.brush) > 0 =>
                  /\ r.layersSelected = MarqueeOf(w)
                  /\ r.layersHighlighted = MarqueeOf(w)
    /\ w.selection.mode \notin { BRUSH, MOVE } /\ status = "" =>
           /\ r.layersSelected = w.layersSelected
           /\ r.layersHighlighted = w.layersHighlighted
           /\ r.selection.brushContainer = w.selection.brushContainer

UpMappedFrom(w, in) == UpMapped(w, in, PointerUpStep(w, in), CommitStatus(w, in))

\* C23: the pointer-up step maps BRUSH to IDLE after hiding the marquee
\* and committing the brush selection, MOVE to READY_TO_MOVE both for a
\* click below the threshold and for a committed move, RESIZE and
\* READY_TO_RESIZE to READY_TO_RESIZE after a resize commit, ROTATE to
\* READY_TO_ROTATE after a rotate commit; every other mode is unchanged
\* and commits nothing.
C23_PointerUpMapping ==
    [](\A in \in UpInputs : UpMappedFrom(BeforeUp(World, in), in))

\* A rotate gesture has ended: the pointer-up found ROTATE, committed with
\* one history record and left READY_TO_ROTATE
C23_RotateCommitted ==
    /\ ~pressed
    /\ press.phase = "up"
    /\ press.upMode = ROTATE
    /\ ModeBefore = READY_TO_ROTATE
    /\ press.log = << "pointer-up" >>
    /\ transformable.status = "ROTATED"

\* Pointer positions around the pointer-down position of w: at it, and
\* 2, 3, about 2.8, about 3.6 and about 4.2 pixels from it
NearDown(w) ==
    { << w.selection.pointerDownViewportX + dx, w.selection.pointerDownViewportY + dy >> :
          dx \in { 0, 2, 3 }, dy \in { 0, 2, 3 } }

\* The pointer positions a move gesture of w is tried at: the points of
\* the input stream and the points around the pointer-down, without the
\* position of the last frame (a frame there is no drag frame)
DragTargets(w) == (Points \cup NearDown(w)) \ { pointerViewport }

\* dr is what a drag frame at the pointer of in leaves of w, ur what a
\* pointer-up there leaves of it
DragAgrees(w, dr, ur) ==
    IF ur.recordLog = w.recordLog
    THEN dr = w
    ELSE /\ dr.transformable.status = "MOVING"
         /\ ~dr.transformable.visible

DragAgreesAt(w, in) ==
    DragAgrees(w, DragStep(w, in, << Point(pointerViewport) >>), UpMode(w, in))

\* C24: the drag step and the pointer-up step agree on what counts as a
\* drag: for every pointer position p and pointer-down position d, a MOVE
\* drag frame at p applies the move if and only if a pointer-up at p would
\* commit the move instead of click-selecting, also when p is exactly 3
\* viewport pixels from d.
C24_DragAndUpAgree ==
    [](pressed /\ ModeBefore = MOVE =>
           \A p \in DragTargets(World) :
               DragAgreesAt(AtStep(World, "drag"), Input(FALSE, FALSE, p, FALSE, "", << >>)))

\* A press on node A at (16, 16) has dragged to (18, 18), less than 3
\* pixels away: no move was applied
C24_SmallDragNotApplied ==
    /\ pressed
    /\ ModeBefore = MOVE
    /\ layersSelected = { "A" }
    /\ selections[1].pointerDownViewportX = 16
    /\ selections[1].pointerDownViewportY = 16
    /\ pointerViewport = << 18, 18 >>
    /\ transformable.status # "MOVING"
    /\ nodes = press.nodes

\* C25: when a MOVE gesture is ended by a pointer-up that treats it as a
\* click (release less than 3 pixels from the press), the gesture has left
\* no move state behind: the Transformable status is not MOVING, the
\* transformer is visible and every selected node that was highlighted
\* before the pointer-down still is.
C25_ClickLeavesNoMoveState ==
    (AfterUp /\ press.upMode = MOVE /\ ReleasedNear) =>
        /\ transformable.status # "MOVING"
        /\ transformable.visible
        /\ (layersSelected \cap press.lit) \subseteq layersHighlighted

\* The world the key step of a frame finds
BeforeKey(w, in) ==
    AtStep(DragStep(AtStep(
               HoverStep(AtStep(PointerDownStep(w, in), "hover"), in),
               "drag"), in, in.inputPoints),
           "key")

\* The inputs of a frame whose key is Escape, the cursor at rest or moved
EscapeInputs ==
    { Input(FALSE, FALSE, p, FALSE, "Escape",
            IF pressed THEN << Point(pointerViewport) >> ELSE << >>) : p \in Points }

EscapeClears(w, r) ==
    /\ r.layersSelected = {}
    /\ r.layersHighlighted = {}
    /\ IF w.selection.mode = BRUSH
       THEN /\ r.selection.mode = IDLE
            /\ r.selection.brushContainer.visibility = "hidden"
       ELSE r.selection = w.selection

EscapeClearsFrom(w, in) == EscapeClears(w, KeyStep(w, in))

\* C26: the key step of an Escape frame empties the selection and the
\* highlight set in every mode and, in BRUSH, hides the marquee and leaves
\* mode IDLE (any other mode is kept); for a press left in IDLE the drag
\* step of a later frame changes nothing, and every later frame of the
\* press leaves the mode IDLE, the marquee container untouched and no
\* node selected that was not.
C26_EscapeClears ==
    /\ [](\A in \in EscapeInputs : EscapeClearsFrom(BeforeKey(World, in), in))
    /\ [](pressed /\ ModeBefore = IDLE =>
             \A p \in Points :
                 DragStep(AtStep(World, "drag"),
                          Input(FALSE, FALSE, p, FALSE, "", << Point(pointerViewport) >>),
                          << Point(pointerViewport) >>) = AtStep(World, "drag"))
    /\ [][ HeldFrame /\ ModeBefore = IDLE =>
              /\ selections'[1].mode = IDLE
              /\ selections'[1].brushContainer = selections[1].brushContainer
              /\ layersSelected' \subseteq layersSelected ]_vars

\* A marquee drawn from (0,0) to (13,13) was ended by Escape and the
\* pointer, still down, moved on to (30,14)
C26_EscapedBrush ==
    /\ pressed
    /\ ModeBefore = IDLE
    /\ Len(selections) > 0
    /\ selections[1].brushContainer.visibility = "hidden"
    /\ selections[1].brushContainer.brush
         = << [ x |-> 0, y |-> 0, width |-> 13, height |-> 13 ] >>
    /\ layersSelected = {}
    /\ pointerViewport = << 30, 14 >>

\* A frame of a rotate gesture: the pointer-down frame that enters ROTATE,
\* and every frame that finds ROTATE
RotateGestureFrame ==
    \/ ModeBefore = ROTATE
    \/ Len(selections') > 0 /\ selections'[1].mode = ROTATE

\* C27: no frame of a rotate gesture, from the pointer-down that enters
\* ROTATE through the drag frames to the pointer-up, changes a node's
\* translation, rotation, scale or size; after the pointer-up that found
\* ROTATE the nodes are as they were before the pointer-down, and the
\* commit has made its history record with status ROTATED.
C27_RotateChangesNothing ==
    /\ [][ RotateGestureFrame => nodes' = nodes ]_vars
    /\ []((AfterUp /\ press.upMode = ROTATE) =>
             /\ nodes = press.nodes
             /\ ModeBefore = READY_TO_ROTATE
             /\ press.log = << "pointer-up" >>
             /\ transformable.status = "ROTATED")

\* A rotate gesture was dragged at least DRAG_THRESHOLD from its
\* pointer-down and released
C27_RotateDragged ==
    /\ AfterUp
    /\ press.upMode = ROTATE
    /\ press.downMode = READY_TO_ROTATE
    /\ press.dragged
    /\ layersSelected = { "A" }

\* The pointer positions a brush drag frame is tried at: the points of the
\* input stream, and the viewport points 0, 6, 8 and 10 pixels left, right,
\* above and below the pointer-down position (10 pixels from it at (6,8),
\* (10,0); more at (8,8), (10,6)), the pointer of the last frame left out
BrushTargets ==
    (Points \cup
     { p \in { << cameraControl.pointerDownViewportX + dx,
                  cameraControl.pointerDownViewportY + dy >> :
                   dx \in { -10, -8, -6, 0, 6, 8, 10 },
                   dy \in { -10, -8, -6, 0, 6, 8, 10 } } :
           p[1] >= 0 /\ p[2] >= 0 })
    \ { pointerViewport }

\* The rectangle spanned by two viewport points
SpanOf(x1, y1, x2, y2) ==
    [ x |-> IF x1 < x2 THEN x1 ELSE x2,
      y |-> IF y1 < y2 THEN y1 ELSE y2,
      width |-> IF x1 < x2 THEN x2 - x1 ELSE x1 - x2,
      height |-> IF y1 < y2 THEN y2 - y1 ELSE y1 - y2 ]

BrushFrame(w, r, x, y, downX, downY) ==
    /\ r.selection.mode = BRUSH
    /\ IF (x - downX) * (x - downX) + (y - downY) * (y - downY)
            <= BRUSH_THRESHOLD * BRUSH_THRESHOLD
       THEN /\ r.selection.brushContainer = w.selection.brushContainer
            /\ r.layersSelected = w.layersSelected
            /\ r.layersHighlighted = w.layersHighlighted
       ELSE /\ r.selection.brushContainer.visibility = "visible"
            /\ r.selection.brushContainer.brush = << SpanOf(downX, downY, x, y) >>
            /\ r.selection.brushContainer.brush[1].width >= 0
            /\ r.selection.brushContainer.brush[1].height >= 0

BrushFrameAt(w, in) ==
    BrushFrame(w, DragStep(w, in, in.inputPoints), in.x, in.y,
               cameraControl.pointerDownViewportX, cameraControl.pointerDownViewportY)

\* C28: the drag step of a frame of a press in READY_TO_BRUSH or BRUSH
\* whose pointer moved leaves mode BRUSH; with the pointer at most
\* BRUSH_THRESHOLD pixels from the pointer-down position it leaves the
\* marquee container, the selection and the highlight set as they were;
\* with the pointer farther away it leaves the marquee visible as the
\* rectangle spanned by the pointer-down position and the pointer, its
\* width and height not negative.
C28_BrushThreshold ==
    [](pressed /\ ModeBefore \in { READY_TO_BRUSH, BRUSH } =>
          \A p \in BrushTargets :
              BrushFrameAt(AtStep(World, "drag"),
                           Input(FALSE, FALSE, p, FALSE, "",
                                 << Point(pointerViewport) >>)))

\* A marquee drawn up and to the left, from the pointer-down at (18,18)
\* to the pointer at (0,0)
C28_MarqueeDrawnBackwards ==
    /\ pressed
    /\ ModeBefore = BRUSH
    /\ cameraControl = [ pointerDownViewportX |-> 18, pointerDownViewportY |-> 18 ]
    /\ pointerViewport = << 0, 0 >>
    /\ selections[1].brushContainer.visibility = "visible"
    /\ selections[1].brushContainer.brush
         = << [ x |-> 0, y |-> 0, width |-> 18, height |-> 18 ] >>

\* The snap guides on the overlay
SnapGuides == IF Len(selections) > 0 THEN selections[1].snapContainer.lines ELSE {}

\* The guides a drag frame leaves do not depend on the guides it found
GuidesReplaced(w, in) ==
    DragStep(w, in, in.inputPoints).selection.snapContainer.lines
        = DragStep(clearSnapLines(w), in, in.inputPoints).selection.snapContainer.lines

\* C29: whenever the snap-guide overlay is not empty the mode is MOVE and
\* a pointer is active; the guides left by a move frame that renders (the
\* pixel grid enabled, the pointer DRAG_THRESHOLD from the pointer-down) are
\* those of that frame alone, the previous ones discarded; and the overlay
\* is empty after every frame in which execute() processes a pointer-up.
C29_SnapGuidesOnlyWhileMoving ==
    /\ [](SnapGuides # {} => ModeBefore = MOVE /\ pressed)
    /\ [](pressed /\ ModeBefore = MOVE /\ snapToPixelGridEnabled =>
             \A p \in { q \in Points \ { pointerViewport } :
                            distanceAtLeast(q[1], q[2],
                                            selections[1].pointerDownViewportX,
                                            selections[1].pointerDownViewportY,
                                            DRAG_THRESHOLD) } :
                 GuidesReplaced(AtStep(World, "drag"),
                                Input(FALSE, FALSE, p, FALSE, "",
                                      << Point(pointerViewport) >>)))
    /\ [][ (/\ pressed
            /\ ~pressed'
            /\ penbarSelected \in { "SELECT", "VECTOR_NETWORK" })
           => SnapGuides' = {} ]_vars

\* The saved aspect of a drag frame is degenerate for its edge anchor:
\* cos below 1e-10 for MIDDLE_LEFT / MIDDLE_RIGHT, cos or sin below 1e-10
\* for TOP_CENTER / BOTTOM_CENTER
DegenerateEdgeFrame ==
    /\ calc.op = "dragged"
    /\ \/ /\ calc.anchorName \in { "MIDDLE_LEFT", "MIDDLE_RIGHT" }
          /\ SavedCos(calc.obb, Hypotenuse2(calc.obb)).num = 0
       \/ /\ calc.anchorName \in { "TOP_CENTER", "BOTTOM_CENTER" }
          /\ \/ SavedCos(calc.obb, Hypotenuse2(calc.obb)).num = 0
             \/ SavedSin(calc.obb, Hypotenuse2(calc.obb)).num = 0

\* C30: an edge-anchor resize drag frame with a degenerate saved aspect
\* leaves the positions of the transform-box anchors, the OBB and the
\* geometry of every node as they were before the frame.
C30_DegenerateEdgeNoOp ==
    DegenerateEdgeFrame =>
        /\ calc.newAnchors = calc.anchors
        /\ calc.newObb = calc.obb
        /\ ~calc.fitted

\* A resize drag frame one of the guards of computeOBBFromSavedMask stops:
\* no saved mask matrix, a saved OBB without width or without height, or a
\* new box with neither width nor height
GuardedFrame ==
    \/ ~calc.saved
    \/ calc.obb.width <= 0
    \/ calc.obb.height <= 0
    \/ (calc.box.width < Epsilon /\ calc.box.height < Epsilon)

\* C31: a resize drag frame stopped by a guard (saved mask matrix missing,
\* saved OBB width or height below 1e-10, new width and new height both
\* below 0.01) writes no node geometry and no mask transform; every other
\* frame applies one new OBB, the one computed from the saved mask, to the
\* selected node, and leaves the other nodes alone.
C31_GuardsSkipOrFitOnce ==
    calc.op = "dragged" =>
        IF GuardedFrame
        THEN /\ calc.nodesAfter = calc.nodesBefore
             /\ ~calc.fitted
        ELSE /\ calc.fitted
             /\ calc.nodesAfter["A"] = calc.newObb
             /\ \A id \in NodeIds \ { "A" } : calc.nodesAfter[id] = calc.nodesBefore[id]

\* A drag frame took the cursor onto the fixed corner of a box with
\* extent: the new box has no size and nothing was written
C31_SizeGuardSkips ==
    /\ calc.op = "dragged"
    /\ calc.saved
    /\ calc.obb.width > 0
    /\ calc.obb.height > 0
    /\ calc.box.skip
    /\ calc.nodesAfter = calc.nodesBefore

\* The pointer-up frame just run ended a brush gesture begun on empty
\* canvas whose pointer never was more than BRUSH_THRESHOLD pixels from its
\* pointer-down: the frame found the brush armed or running with no marquee
\* shown (a drag frame beyond the threshold shows it, and only the end of
\* the brush hides it), and the pointer was released within the threshold
SmallBrushEnded ==
    /\ AfterUp
    /\ press.target = NoEntity
    /\ press.upMode \in { READY_TO_BRUSH, BRUSH }
    /\ press.upBrush = << >>
    /\ ~distanceMoreThan(pointerViewport[1], pointerViewport[2],
                         cameraControl.pointerDownViewportX,
                         cameraControl.pointerDownViewportY, BRUSH_THRESHOLD)

\* C32: a brush gesture whose pointer never moves more than BRUSH_THRESHOLD
\* pixels from its pointer-down ends with an empty selection, whatever
\* earlier brush gestures selected.
C32_SmallBrushSelectsNothing == SmallBrushEnded => layersSelected = {}

\* The modes of a running gesture
GestureModes == { BRUSH, SELECT, MOVE, RESIZE, ROTATE }

\* A step that runs a frame in which no pointer-down fired and that leaves
\* no pointer active
FrameEndsAtRest ==
    /\ frames' # frames
    /\ ~pressed'
    /\ pressed \/ press'.phase # "up"

\* C33: at the end of every frame in which no pointer is active and no
\* pointer-down fired, the mode is none of BRUSH, SELECT, MOVE, RESIZE,
\* ROTATE.
C33_GestureModesEndWithPress ==
    [][ FrameEndsAtRest /\ Len(selections') > 0 =>
            selections'[1].mode \notin GestureModes ]_vars

\* C34: whenever the mode is READY_TO_MOVE or MOVE at the end of a frame,
\* the selection is non-empty.
C34_MoveNeedsSelection ==
    [](Len(selections) > 0 /\ selections[1].mode \in { READY_TO_MOVE, MOVE } =>
            layersSelected # {})

\* The marquee overlay of the current context is shown
MarqueeVisible(sel) == sel.brushContainer.visibility = "visible"

\* A step out of BRUSH leaves the marquee hidden
LeavesBrushHidden(w, r) ==
    w.selection.mode = BRUSH /\ r.selection.mode # BRUSH =>
        r.selection.brushContainer.visibility = "hidden"

\* C35: the brush marquee is visible only while brushing: at the end of
\* every frame a visible marquee implies mode BRUSH, and every step that
\* takes the mode out of BRUSH (the key step on Escape, the pointer-up step,
\* and so the frame they run in) hides the marquee in the same step.
C35_MarqueeOnlyWhileBrushing ==
    /\ [](Len(selections) > 0 /\ MarqueeVisible(selections[1]) =>
              selections[1].mode = BRUSH)
    /\ [](\A in \in EscapeInputs :
              LeavesBrushHidden(BeforeKey(World, in),
                                KeyStep(BeforeKey(World, in), in)))
    /\ [](\A in \in UpInputs :
              LeavesBrushHidden(BeforeUp(World, in),
                                PointerUpStep(BeforeUp(World, in), in)))
    /\ [][ /\ Len(selections) > 0
           /\ Len(selections') > 0
           /\ selections[1].mode = BRUSH
           /\ selections'[1].mode # BRUSH
           => ~MarqueeVisible(selections'[1]) ]_vars

\* A pointer-up has ended a brush whose marquee was shown, and hidden it
C35_ShownMarqueeHidden ==
    /\ AfterUp
    /\ press.upMode = BRUSH
    /\ press.upBrush # << >>
    /\ Len(selections) > 0
    /\ selections[1].mode # BRUSH
    /\ selections[1].brushContainer.visibility = "hidden"
    /\ selections[1].brushContainer.brush # << >>

\* A frame whose pointer-down step finds the mode IDLE, which it moves to
\* READY_TO_BRUSH
BrushArmingFrame ==
    /\ frames' # frames
    /\ ~pressed /\ pressed'
    /\ ModeBefore = IDLE
    /\ Len(selections') > 0

C37_RecordIffGeometryChanged ==
    [](AfterUp => (Len(press.log) > 0 <=> nodes # press.nodes))

\* The API calls made so far for call c, in order
RECURSIVE CallsOf(_, _)
CallsOf(calls, c) ==
    IF calls = << >> THEN << >>
    ELSE IF Head(calls).call = c
         THEN << Head(calls).api >> \o CallsOf(Tail(calls), c)
         ELSE CallsOf(Tail(calls), c)

\* Call c is queued, has run its next-tick callback, has run its timer
Queued(c) == \E i \in 1..Len(tasks.nextTick) : tasks.nextTick[i].call = c

TimerSet(c) == \E i \in 1..Len(tasks.timeouts) : tasks.timeouts[i].call = c

\* The calls made for c are those of its stage
InStage(c) ==
    CallsOf(tasks.calls, c) =
        IF c > tasks.made \/ Queued(c) THEN << >>
        ELSE IF TimerSet(c) THEN << "updateNodes", "record" >>
        ELSE << "updateNodes", "record", "unhighlightNodes", "selectNodes" >>

\* The last call logged
LastCall(t) == t.calls[Len(t.calls)]

\* C38: updateAndSelectNodes does nothing synchronously; at the next tick
\* it calls updateNodes(nodes) and then record(), in that order, and only in
\* a later delayed callback does it unhighlight the highlighted layers and
\* then select exactly the first node of the list: the selection change
\* never precedes the update or the history record, and exactly one
\* record() is made per call.
C38_UpdateThenSelect ==
    /\ [](\A c \in 1..MaxCalls : InStage(c))
    /\ [][ tasks'.made # tasks.made =>
               /\ tasks'.calls = tasks.calls
               /\ tasks'.timeouts = tasks.timeouts
               /\ << nodes, layersSelected, layersHighlighted >>' =
                      << nodes, layersSelected, layersHighlighted >> ]_vars
    /\ [][ Len(tasks'.nextTick) < Len(tasks.nextTick) =>
               /\ nodes' = updateNodes(ApiState, Head(tasks.nextTick).nodes).nodes
               /\ layersSelected' = layersSelected
               /\ layersHighlighted' = layersHighlighted
               /\ \E i \in 1..Len(tasks'.timeouts) :
                      tasks'.timeouts[i].call = Head(tasks.nextTick).call ]_vars
    /\ [][ layersSelected' # layersSelected =>
               /\ Len(tasks'.timeouts) < Len(tasks.timeouts)
               /\ LastCall(tasks').api = "selectNodes" ]_vars
    /\ [][ Len(tasks'.timeouts) < Len(tasks.timeouts) =>
               /\ layersSelected' = { Head(tasks.timeouts).nodes[1].id }
               /\ LastCall(tasks').arg = << Head(tasks.timeouts).nodes[1] >>
               /\ layersHighlighted' =
                      layersHighlighted \ Head(tasks.timeouts).appState.layersHighlighted
               /\ nodes' = nodes ]_vars
    /\ \A c \in 1..MaxCalls :
           tasks.made >= c ~> (~Queued(c) /\ ~TimerSet(c))

\* A call with a two-node list has run to its end while a later call was
\* still waiting for its tick: the first node alone is selected, both are
\* updated
C38_FirstOfTwoSelected ==
    /\ tasks.made = 2
    /\ Queued(2)
    /\ ~Queued(1) /\ ~TimerSet(1)
    /\ Len(tasks.calls) = 4
    /\ Len(tasks.calls[1].arg) = 2
    /\ layersSelected = { tasks.calls[1].arg[1].id }
    /\ nodes[tasks.calls[1].arg[2].id] # InitNodes[tasks.calls[1].arg[2].id]

====
